---- MODULE Spec2Model ----
(***************************************************************************)
(* microfefind: the Ingress -> Service -> Pod monitor hierarchy and the    *)
(* in-memory map of hostname+path entries it maintains.                   *)
(*                                                                         *)
(* Strings that the program takes apart or concatenates are sequences of  *)
(* tokens; an Option<T> is a sequence of length 0 (None) or 1 (Some).      *)
(* Objects behind an Arc live in tables (sequences of records) and are     *)
(* referred to by their index, so that an object that is no longer        *)
(* referenced by the map, but whose tasks still run, stays in the state.   *)
(***************************************************************************)
EXTENDS Integers, Sequences, FiniteSets, TLC

VARIABLES
    app_config,                   \* AppConfig::new: what it reads and what it returns
    k8s_resource_stream,          \* a stream made by reflector_stream, and the objects it watches
    namespaces,                   \* app_config.ingress.namespaces()
    tag_prefix,                   \* app_config.ingress.annotation_prefix()
    now,                          \* the wall clock, in milliseconds
    apiRules,                     \* the Ingress objects of the Kubernetes API
    events,                       \* number of events of the cluster so far
    missed,                       \* history: namespaces where a change of a rule was not delivered as an event
    queue,                        \* per namespace: the watch events not yet handled
    rw,                           \* per namespace: the watch_ingresses task
    health_ready,                 \* IngressMonitor.health_ready
    monitored_ingress_host_paths, \* IngressMonitor.monitored_ingress_host_paths
    hostPaths,                    \* every IngressHostPath object ever made
    serviceMonitors,              \* every ServiceMonitor object ever made
    podMonitors                   \* every PodMonitor object ever made

vars == <<app_config, k8s_resource_stream, namespaces, tag_prefix, now, apiRules, events, missed, queue, rw, health_ready,
          monitored_ingress_host_paths, hostPaths, serviceMonitors,
          podMonitors>>

-----------------------------------------------------------------------------
(* Bounds of the model.                                                    *)

MaxClock == 2
MaxEvents == 3
MaxQueue == 2

(* now_as_secs() and now_as_millis() read the same clock.                  *)
MillisPerSec == 1000

-----------------------------------------------------------------------------
(* The configuration and the inputs.                                       *)

RuleNames == {"r1", "r2", "r3"}
RuleNamespace(r) == IF r = "r3" THEN "nsB" ELSE "nsA"

annotation_prefix == <<"microfe/">>

Hosts == {<<"a.example">>}
Paths == {<<"/app">>, <<"/shop">>}

Item(h, p, s) == [host |-> h, path |-> p, service |-> s]

(* http_ingress_path.backend.service is None.                              *)
BackendServiceNone == "(none)"

(* What a rule is given: its spec.rules, flattened to (host, path,        *)
(* backend service), and its metadata.annotations, a map.                  *)
Content(items, annotations) == [items |-> items, annotations |-> annotations]

RuleContents ==
    { Content(<<Item(<<"a.example">>, <<"/app">>, "svc-a")>>,
              (<<"microfe/", "team">> :> "finance") @@ (<<"other">> :> "x")),
      Content(<<Item(<<"a.example">>, <<"/app">>, "svc-a")>>,
              (<<"microfe/", "team">> :> "retail")),
      Content(<<Item(<<"a.example">>, <<"/app">>, "svc-b")>>,
              (<<"microfe/", "team">> :> "retail")),
      Content(<<Item(<<"a.example">>, <<"/shop">>, "svc-a")>>,
              (<<"other">> :> "x")),
      Content(<<Item(<<"a.example">>, <<"/app">>, "svc-a"),
                Item(<<"a.example">>, <<"/shop">>, "svc-a")>>,
              (<<"microfe/", "team">> :> "finance") @@ (<<"other">> :> "x")) }

InitialContents ==
    { Content(<<Item(<<"a.example">>, <<"/app">>, "svc-a")>>,
              (<<"microfe/", "team">> :> "finance") @@ (<<"other">> :> "x")) }

(* spec.selector of a Service: a BTreeMap, here its pairs in key order.    *)
SelectorMaps ==
    { << <<"app", "a">> >>,
      << <<"app", "b">> >> }

(* The metadata.ownerReferences of a Pod, as (kind, name) pairs.           *)
OwnerLists ==
    { << <<"ReplicaSet", "rs-1">> >>,
      << <<"ReplicaSet", "rs-2">> >> }

-----------------------------------------------------------------------------
(* Option<T>.                                                              *)

None == <<>>
Some(x) == <<x>>
IsSome(o) == o # <<>>
Unwrap(o) == o[1]

(* Option::insert: stores the value and returns a reference to the value   *)
(* just stored; the value held before is dropped.  old is the Option       *)
(* before the call, new the value stored.                                  *)
OptionInsertReturn(old, new) == Some(new)

-----------------------------------------------------------------------------
(* Pure functions of the program.                                          *)

(* crate::time::now_as_secs *)
now_as_secs(ms) == ms \div MillisPerSec

(* IngressHostPath::identifier: host.to_owned() + path *)
identifier(host, path) == host \o path

AllKeys == { identifier(h, p) : h \in Hosts, p \in Paths }

(* Variant: the prefix is looked for anywhere in the key.                  *)
starts_with_anywhere(s, prefix) ==
    \E i \in 1..(Len(s) - Len(prefix) + 1) : SubSeq(s, i, i + Len(prefix) - 1) = prefix

(* str::starts_with *)
starts_with(s, prefix) ==
    /\ Len(s) >= Len(prefix)
    /\ SubSeq(s, 1, Len(prefix)) = prefix

(* str::replacen(prefix, "", 1): the first occurrence is removed.          *)
RECURSIVE replacen_first(_, _)
replacen_first(s, prefix) ==
    IF Len(s) < Len(prefix) \/ Len(prefix) = 0 THEN s
    ELSE IF SubSeq(s, 1, Len(prefix)) = prefix
         THEN SubSeq(s, Len(prefix) + 1, Len(s))
         ELSE <<Head(s)>> \o replacen_first(Tail(s), prefix)

(* The filter_map of update_ingress_host_paths over the annotations.       *)
FilterAnnotations(ann, prefix) ==
    LET kept == { k \in DOMAIN ann : starts_with(k, prefix) }
        stripped == { replacen_first(k, prefix) : k \in kept }
    IN  [ s \in stripped |->
            ann[CHOOSE k \in kept : replacen_first(k, prefix) = s] ]

(* Variant: the maps are compared by size only.                            *)
AnnotationsChanged_by_size(old, new) ==
    Cardinality(DOMAIN new) # Cardinality(DOMAIN old)

(* The comparison of annotations_update: by size, then key by key.         *)
AnnotationsChanged(old, new) ==
    \/ Cardinality(DOMAIN new) # Cardinality(DOMAIN old)
    \/ \E k \in DOMAIN new : k \notin DOMAIN old \/ old[k] # new[k]

(* The tokens that strings are made of, in the order of their bytes; no    *)
(* token is the beginning of another, so that the order of two strings is  *)
(* the order of their first differing tokens.                              *)
TokenOrder ==
    <<"/", "Job", "ReplicaSet", "app.", "io/", "microfe/", "other", "rs-1", "rs-2",
      "team", "tier">>

TokenRank(t) == CHOOSE i \in 1..Len(TokenOrder) : TokenOrder[i] = t

(* Ord for String: the order in which a SkipMap iterates its keys.         *)
RECURSIVE StrLess(_, _)
StrLess(a, b) ==
    /\ b # <<>>
    /\ \/ a = <<>>
       \/ TokenRank(Head(a)) < TokenRank(Head(b))
       \/ Head(a) = Head(b) /\ StrLess(Tail(a), Tail(b))

FirstKey(keys) == CHOOSE k \in keys : \A o \in keys \ {k} : StrLess(k, o)

(* The keys of a SkipMap in the order of its iterator.                     *)
RECURSIVE SortedKeys(_)
SortedKeys(keys) ==
    IF keys = {} THEN <<>>
    ELSE <<FirstKey(keys)>> \o SortedKeys(keys \ {FirstKey(keys)})

(* Variant: the key is stored with an empty value.                         *)
skipmap_insert_without_value(map, k, v) ==
    [x \in DOMAIN map \cup {k} |-> IF x = k THEN "" ELSE map[x]]

(* SkipMap::insert: the value under the key is set.                        *)
skipmap_insert(map, k, v) ==
    [x \in DOMAIN map \cup {k} |-> IF x = k THEN v ELSE map[x]]

(* IngressHostPath::annotations_map: a HashMap collected from the entries. *)
annotations_map(stored) == [k \in DOMAIN stored |-> stored[k]]

(* ServiceMonitor::handle_update: "key1=value1,key2=value2".               *)
RECURSIVE RenderSelector(_)
RenderSelector(pairs) ==
    IF pairs = <<>> THEN <<>>
    ELSE <<pairs[1][1], "=", pairs[1][2]>>
         \o (IF Len(pairs) > 1 THEN <<",">> ELSE <<>>)
         \o RenderSelector(Tail(pairs))

(* Variant: the name of the owner is left out of the key.                  *)
OwnerKeys_kind_only(owners) == [ i \in 1..Len(owners) |-> <<owners[i][1], "/">> ]

(* PodMonitor::handle_update: kind + "/" + name of every owner reference.  *)
OwnerKeys(owners) == [ i \in 1..Len(owners) |-> <<owners[i][1], "/", owners[i][2]>> ]

SeqRange(s) == { s[i] : i \in 1..Len(s) }

ItemKeys(items) == { identifier(items[i].host, items[i].path) : i \in 1..Len(items) }

-----------------------------------------------------------------------------
(* Tasks.  A spawned task is "live" until it is aborted through its        *)
(* AbortHandle or ends by itself on a stream error.  Dropping a handle, or *)
(* the object that holds it, does not stop the task.                       *)

(* tokio AbortHandle::abort on the task the handle was taken from.         *)
AbortTask(status) == IF status = "live" THEN "aborted" ELSE status

(* The owner sweep before its first step.  pc is the place in the task:    *)
(* "start" before now_as_secs is read, "list" while api.list is awaited,   *)
(* "bump" in the for loop over the owners of the listed Pods, "remove" in  *)
(* the for loop over owner_references, "done" once the task has returned.  *)
(* now is the second read, work the owners still to bump, cursor the key   *)
(* the iterator is at.  History: atStart is owner_references when the      *)
(* clock was read, listed the owners of the listed Pods, afterBump         *)
(* owner_references at the end of the first loop, removed the keys the     *)
(* task has removed, completed whether both loops have run to their end.   *)
InitialSweep ==
    [ pc |-> "start", now |-> 0, work |-> <<>>, cursor |-> None,
      atStart |-> <<>>, listed |-> {}, afterBump |-> <<>>, removed |-> {},
      completed |-> FALSE ]

(* PodMonitor::new and start_background_tasks: two tasks are spawned; the  *)
(* JoinHandle of the first (the watch of the Pods) is dropped, the         *)
(* AbortHandle of the second (the owner sweep) is stored in abort_handle.  *)
PodMonitor_new(namespace, label_selector, hp) ==
    [ namespace |-> namespace,
      label_selector |-> label_selector,
      host_path |-> hp,
      watch_task |-> "live",
      sweep_task |-> "live",
      owner_references |-> <<>>,
      sweep |-> InitialSweep,
      pending |-> None ]

(* PodMonitor::abort_background_tasks: abort_handle.abort().               *)
PodMonitor_abort_background_tasks(pm) ==
    [pm EXCEPT !.sweep_task = AbortTask(@)]

(* ServiceMonitor::new and start_background_tasks.  pod_monitor_lock is    *)
(* the holder of the Mutex of pod_monitor ("task" for the own task, a      *)
(* namespace for the watch_ingresses task of the namespace).  pc is the    *)
(* place of the task in handle_update: "idle" at the stream, "wait" at     *)
(* mutex.lock().await, "new" in PodMonitor::new(..).await, "abort" in      *)
(* abort_background_tasks().await, "gone" once the future was dropped;     *)
(* selector is the selector at hand, new_pod_monitor the PodMonitor made   *)
(* and old_pod_monitor what pod_monitor_opt.insert returned.               *)
ServiceMonitor_new(namespace, service_name, hp) ==
    [ namespace |-> namespace,
      service_name |-> service_name,
      host_path |-> hp,
      task |-> "live",
      pod_monitor |-> None,
      pod_monitor_lock |-> None,
      pc |-> "idle",
      selector |-> <<>>,
      new_pod_monitor |-> None,
      old_pod_monitor |-> None,
      pending |-> None ]

(* Variant: the own task is left alone, only the PodMonitor is aborted.    *)
ServiceMonitor_abort_pod_monitor_only(sms, pms, s) ==
    [ sms |-> sms,
      pms |-> IF IsSome(sms[s].pod_monitor)
              THEN [pms EXCEPT ![Unwrap(sms[s].pod_monitor)] =
                        [@ EXCEPT !.sweep_task = AbortTask(@)]]
              ELSE pms ]

(* ServiceMonitor::abort_background_tasks: the own task, then the          *)
(* PodMonitor held, if any.  The result is the two tables.                 *)
ServiceMonitor_abort_background_tasks(sms, pms, s) ==
    [ sms |-> [sms EXCEPT ![s].task = AbortTask(@)],
      pms |-> IF IsSome(sms[s].pod_monitor)
              THEN [pms EXCEPT ![Unwrap(sms[s].pod_monitor)] =
                        PodMonitor_abort_background_tasks(@)]
              ELSE pms ]

(* IngressHostPath::new.  service_monitor_lock is the holder of the Mutex  *)
(* of service_monitor, the namespace of a watch_ingresses task.            *)
IngressHostPath_new(host, path, s) ==
    [ host |-> host,
      path |-> path,
      annotations |-> <<>>,
      updated_millis |-> 0,
      service_monitor |-> Some(s),
      service_monitor_lock |-> None ]

(* Variant: the abort is applied to the ServiceMonitor just installed.     *)
service_name_update_aborts_new(hps, sms, pms, e, service_name) ==
    LET old == Unwrap(hps[e].service_monitor)
    IN  IF sms[old].service_name # service_name
        THEN LET sms1 == Append(sms, ServiceMonitor_new(sms[old].namespace, service_name, e))
                 ab == ServiceMonitor_abort_background_tasks(sms1, pms, Len(sms) + 1)
             IN  [ hps |-> [hps EXCEPT ![e].service_monitor = Some(Len(sms) + 1)],
                   sms |-> ab.sms,
                   pms |-> ab.pms,
                   changed |-> TRUE ]
        ELSE [ hps |-> hps, sms |-> sms, pms |-> pms, changed |-> FALSE ]

(* IngressHostPath::service_name_update, up to and including the read of   *)
(* the clock: the tables after it, and whether the name had changed.       *)
service_name_update(hps, sms, pms, e, service_name) ==
    LET old == Unwrap(hps[e].service_monitor)
    IN  IF sms[old].service_name # service_name
        THEN LET ab == ServiceMonitor_abort_background_tasks(sms, pms, old)
             IN  [ hps |-> [hps EXCEPT ![e].service_monitor = Some(Len(sms) + 1)],
                   sms |-> Append(ab.sms,
                                  ServiceMonitor_new(sms[old].namespace, service_name, e)),
                   pms |-> ab.pms,
                   changed |-> TRUE ]
        ELSE [ hps |-> hps, sms |-> sms, pms |-> pms, changed |-> FALSE ]

(* Variant: only the first (host, path) of the rule is removed.            *)
remove_first_host_path_only(map, items) ==
    [ k \in DOMAIN map |->
        IF items # <<>> /\ k = identifier(items[1].host, items[1].path)
        THEN None ELSE map[k] ]

(* IngressMonitor::remove_ingress_host_paths: the map after the removal of *)
(* the key of every (host, path) of the rule.                              *)
remove_ingress_host_paths(map, items) ==
    [ k \in DOMAIN map |-> IF k \in ItemKeys(items) THEN None ELSE map[k] ]

-----------------------------------------------------------------------------
(* The Kubernetes API, as far as the program observes it.                  *)

AbsentRule == [present |-> FALSE, matching |-> FALSE, items |-> <<>>, annotations |-> <<>>]

Event(type, r) ==
    [ type |-> type, name |-> r,
      items |-> apiRules[r].items, annotations |-> apiRules[r].annotations ]

(* The metadata list of the label selector, by name.                       *)
MatchingNames(ns) ==
    { r \in RuleNames : RuleNamespace(r) = ns /\ apiRules[r].present /\ apiRules[r].matching }

(* The watch of a namespace delivers events once the stream is polled.     *)
Deliver(ns, ev) ==
    /\ queue' = IF rw[ns].st = "watch" THEN [queue EXCEPT ![ns] = Append(@, ev)] ELSE queue
    /\ missed' = IF rw[ns].st \in {"init", "ended"} THEN missed \cup {ns} ELSE missed

NoEvent ==
    [type |-> "none", name |-> "", items |-> <<>>, annotations |-> <<>>, outcome |-> "none"]

InitialTask ==
    [ st |-> "start", work |-> <<>>, cur |-> None, i |-> 0, j |-> 0, ph |-> "idle",
      e |-> 0, t |-> 0, before |-> 0, fresh |-> FALSE, again |-> FALSE,
      last |-> NoEvent ]

(* The task between two rules: st and work as given, nothing at hand.      *)
IdleTask(task, st, work) ==
    [task EXCEPT !.st = st, !.work = work, !.cur = None, !.i = 0, !.ph = "idle",
                 !.e = 0, !.t = 0, !.before = 0, !.fresh = FALSE, !.again = FALSE]

(* History: the event is the rule, unchanged, that the task upserted when  *)
(* it handled the event before this one.                                   *)
SameAsLast(task, ev) ==
    /\ task.last.outcome = "upsert"
    /\ task.last.name = ev.name
    /\ task.last.items = ev.items
    /\ task.last.annotations = ev.annotations

(* History: the event the task handled last and what it did with it.       *)
Handled(task, ev, outcome) ==
    [task EXCEPT !.last = [type |-> ev.type, name |-> ev.name, items |-> ev.items,
                           annotations |-> ev.annotations, outcome |-> outcome]]

(* No call of reflector_stream yet; api is the objects of the watched kind. *)
NotCalled(api) ==
    [ phase |-> "none", api |-> api, n |-> 0, pending |-> <<>>,
      store |-> {}, store_stream |-> {}, store_done |-> FALSE,
      atCreation |-> {}, atList |-> {}, changes |-> {}, yielded |-> {} ]

Objects == {"p1", "p2"}
AbsentObject == [present |-> FALSE, ver |-> 0]

(* AppConfig::new has not run; file and env are the configuration file    *)
(* and the environment overrides, as maps from (section, key) to value.    *)
NotLoaded(file, env) == [file |-> file, env |-> env, loaded |-> "no", value |-> <<>>]

(* IngressMonitor::new in a cluster whose rules have one of the contents.   *)
InitWith(contents) ==
    /\ app_config = NotLoaded(<<>>, <<>>)
    /\ k8s_resource_stream = NotCalled([o \in Objects |-> AbsentObject])
    /\ now = 1
    /\ apiRules \in [RuleNames -> {AbsentRule} \cup
                        { [present |-> TRUE, matching |-> TRUE,
                           items |-> c.items, annotations |-> c.annotations] :
                             c \in contents }]
    /\ \A r \in RuleNames : apiRules[r].present => RuleNamespace(r) \in namespaces
    /\ events = 0
    /\ missed = {}
    /\ queue = [ns \in namespaces |-> <<>>]
    /\ rw = [ns \in namespaces |-> InitialTask]
    /\ health_ready = FALSE
    /\ monitored_ingress_host_paths = [k \in AllKeys |-> None]
    /\ hostPaths = <<>>
    /\ serviceMonitors = <<>>
    /\ podMonitors = <<>>

InitRest == InitWith(InitialContents)

Tick ==
    /\ now < MaxClock
    /\ now' = now + 1
    /\ UNCHANGED <<app_config, k8s_resource_stream, namespaces, tag_prefix, apiRules, events, missed, queue, rw, health_ready,
                   monitored_ingress_host_paths, hostPaths, serviceMonitors,
                   podMonitors>>

progVars == <<app_config, k8s_resource_stream, namespaces, tag_prefix, rw, health_ready, monitored_ingress_host_paths, hostPaths,
              serviceMonitors, podMonitors>>

CanMutate(r) ==
    /\ events < MaxEvents
    /\ RuleNamespace(r) \in namespaces
    /\ Len(queue[RuleNamespace(r)]) < MaxQueue

ApiCreate(r, c) ==
    /\ CanMutate(r)
    /\ ~apiRules[r].present
    /\ apiRules' = [apiRules EXCEPT ![r] =
                       [present |-> TRUE, matching |-> TRUE,
                        items |-> c.items, annotations |-> c.annotations]]
    /\ events' = events + 1
    /\ Deliver(RuleNamespace(r),
               [type |-> "Applied", name |-> r,
                items |-> c.items, annotations |-> c.annotations])
    /\ UNCHANGED <<now, progVars>>

ApiModify(r, c) ==
    /\ CanMutate(r)
    /\ apiRules[r].present
    /\ c # Content(apiRules[r].items, apiRules[r].annotations)
    /\ apiRules' = [apiRules EXCEPT ![r].items = c.items, ![r].annotations = c.annotations]
    /\ events' = events + 1
    /\ IF apiRules[r].matching
       THEN Deliver(RuleNamespace(r),
                    [type |-> "Applied", name |-> r,
                     items |-> c.items, annotations |-> c.annotations])
       ELSE UNCHANGED <<queue, missed>>
    /\ UNCHANGED <<now, progVars>>

(* The label that the selector asks for is taken off the rule; the watch   *)
(* reports the change as Applied or as Deleted.                            *)
ApiUnlabel(r, type) ==
    /\ CanMutate(r)
    /\ apiRules[r].present /\ apiRules[r].matching
    /\ apiRules' = [apiRules EXCEPT ![r].matching = FALSE]
    /\ events' = events + 1
    /\ Deliver(RuleNamespace(r), Event(type, r))
    /\ UNCHANGED <<now, progVars>>

ApiRelabel(r) ==
    /\ CanMutate(r)
    /\ apiRules[r].present /\ ~apiRules[r].matching
    /\ apiRules' = [apiRules EXCEPT ![r].matching = TRUE]
    /\ events' = events + 1
    /\ Deliver(RuleNamespace(r), Event("Applied", r))
    /\ UNCHANGED <<now, progVars>>

ApiDelete(r) ==
    /\ CanMutate(r)
    /\ apiRules[r].present
    /\ apiRules' = [apiRules EXCEPT ![r] = AbsentRule]
    /\ events' = events + 1
    /\ IF apiRules[r].matching
       THEN Deliver(RuleNamespace(r), Event("Deleted", r))
       ELSE UNCHANGED <<queue, missed>>
    /\ UNCHANGED <<now, progVars>>

(* The rule is written without a change of what the program reads of it    *)
(* (its status is updated, say): the watch reports it as Applied.          *)
ApiTouch(r) ==
    /\ CanMutate(r)
    /\ apiRules[r].present /\ apiRules[r].matching
    /\ events' = events + 1
    /\ Deliver(RuleNamespace(r), Event("Applied", r))
    /\ UNCHANGED <<now, apiRules, progVars>>

(* The watch stream of a namespace re-lists.                               *)
WatchRestart(ns) ==
    /\ events < MaxEvents
    /\ rw[ns].st = "watch"
    /\ Len(queue[ns]) < MaxQueue
    /\ events' = events + 1
    /\ queue' = [queue EXCEPT ![ns] =
                    Append(@, [type |-> "Restarted", name |-> "", items |-> <<>>,
                               annotations |-> <<>>])]
    /\ UNCHANGED <<now, apiRules, missed, progVars>>

-----------------------------------------------------------------------------
(* IngressMonitor::watch_ingresses, one task per namespace.  st is "start" *)
(* before the list of the existing rules, "init" while the listed rules    *)
(* are upserted, "watch" while events of the watch stream are handled and  *)
(* "ended" once the task has returned.  While a rule is upserted, cur is   *)
(* the rule, i the (host, path) item at hand and ph the place in           *)
(* update_ingress_host_paths and annotations_update ("svc", "svcInsert",   *)
(* "svcGet", "svcStore", "ann", "annClear", "annInsert", "annStore"); j is *)
(* the number of inserts of annotations_update done; t is the clock value  *)
(* read for a store.                                                       *)
(* History: before is the value of updated_millis when the clock was read, *)
(* fresh tells that the entry at hand was made by this upsert,             *)
(* again tells that the event at hand repeats the one upserted just before *)
(* it, last is the event handled last.                                     *)

envVars == <<app_config, k8s_resource_stream, namespaces, tag_prefix, now, apiRules, events, missed>>

BeginUpsert(task, ev) ==
    [task EXCEPT !.cur = Some(ev), !.i = 1, !.ph = "svc", !.e = 0, !.t = 0,
                 !.before = 0, !.fresh = FALSE]

(* The next item of the rule, or the end of update_ingress_host_paths.     *)
NextItem(task) ==
    IF task.i < Len(Unwrap(task.cur).items)
    THEN [task EXCEPT !.i = @ + 1, !.ph = "svc", !.e = 0, !.t = 0,
                      !.before = 0, !.fresh = FALSE]
    ELSE IdleTask(task, task.st, task.work)

(* Variant: a task that has returned is spawned again and lists anew.      *)
ListIngresses_respawned(ns) ==
    /\ rw[ns].st \in {"start", "ended"}
    /\ \E order \in [1..Cardinality(MatchingNames(ns)) -> MatchingNames(ns)] :
          /\ SeqRange(order) = MatchingNames(ns)
          /\ rw' = [rw EXCEPT ![ns] =
                       IdleTask(@, "init",
                                [j \in DOMAIN order |-> Event("Applied", order[j])])]
    /\ UNCHANGED <<envVars, queue, health_ready, monitored_ingress_host_paths,
                   hostPaths, serviceMonitors, podMonitors>>

(* api.list(lp) answers: the matching rules are to be upserted in turn.    *)
ListIngresses(ns) ==
    /\ rw[ns].st = "start"
    /\ \E order \in [1..Cardinality(MatchingNames(ns)) -> MatchingNames(ns)] :
          /\ SeqRange(order) = MatchingNames(ns)
          /\ rw' = [rw EXCEPT ![ns] =
                       IdleTask(@, "init",
                                [j \in DOMAIN order |-> Event("Applied", order[j])])]
    /\ UNCHANGED <<envVars, queue, health_ready, monitored_ingress_host_paths,
                   hostPaths, serviceMonitors, podMonitors>>

(* Variant: the error of one task ends the tasks of all namespaces.        *)
ListIngressesError_ends_all(ns) ==
    /\ rw[ns].st = "start"
    /\ rw' = [n \in namespaces |-> IdleTask(rw[n], "ended", <<>>)]
    /\ queue' = [n \in namespaces |-> <<>>]
    /\ UNCHANGED <<envVars, health_ready, monitored_ingress_host_paths,
                   hostPaths, serviceMonitors, podMonitors>>

(* api.list(lp) fails: the task logs the error and returns.                *)
ListIngressesError(ns) ==
    /\ rw[ns].st = "start"
    /\ rw' = [rw EXCEPT ![ns] = IdleTask(@, "ended", <<>>)]
    /\ UNCHANGED <<envVars, queue, health_ready, monitored_ingress_host_paths,
                   hostPaths, serviceMonitors, podMonitors>>

(* The for loop over the listed rules.                                     *)
InitUpsert(ns) ==
    /\ rw[ns].st = "init" /\ rw[ns].cur = None /\ rw[ns].work # <<>>
    /\ rw' = [rw EXCEPT ![ns] =
                 BeginUpsert([@ EXCEPT !.work = Tail(@)], Head(rw[ns].work))]
    /\ UNCHANGED <<envVars, queue, health_ready, monitored_ingress_host_paths,
                   hostPaths, serviceMonitors, podMonitors>>

(* Variant: health_ready.store(true) ahead of the for loop, the listed    *)
(* rules are dropped.                                                      *)
InitDone_before_loop(ns) ==
    /\ rw[ns].st = "init" /\ rw[ns].cur = None
    /\ health_ready' = TRUE
    /\ rw' = [rw EXCEPT ![ns] = IdleTask(@, "watch", <<>>)]
    /\ UNCHANGED <<envVars, queue, monitored_ingress_host_paths,
                   hostPaths, serviceMonitors, podMonitors>>

(* health_ready.store(true), then the first poll of the watch stream.      *)
InitDone(ns) ==
    /\ rw[ns].st = "init" /\ rw[ns].cur = None /\ rw[ns].work = <<>>
    /\ health_ready' = TRUE
    /\ rw' = [rw EXCEPT ![ns] = IdleTask(@, "watch", <<>>)]
    /\ UNCHANGED <<envVars, queue, monitored_ingress_host_paths,
                   hostPaths, serviceMonitors, podMonitors>>

Watching(ns, type) ==
    /\ rw[ns].st = "watch" /\ rw[ns].cur = None
    /\ queue[ns] # <<>>
    /\ Head(queue[ns]).type = type

(* Event::Deleted.                                                         *)
HandleDeleted(ns) ==
    /\ Watching(ns, "Deleted")
    /\ queue' = [queue EXCEPT ![ns] = Tail(@)]
    /\ monitored_ingress_host_paths' =
          remove_ingress_host_paths(monitored_ingress_host_paths, Head(queue[ns]).items)
    /\ rw' = [rw EXCEPT ![ns] = Handled(@, Head(queue[ns]), "remove")]
    /\ UNCHANGED <<envVars, health_ready, hostPaths, serviceMonitors, podMonitors>>

(* Variant: the list is only asked whether it has any rule.                *)
still_present_any(ns, name) == MatchingNames(ns) # {}

(* any(|object| ingress.metadata.name == object.metadata.name)             *)
still_present(ns, name) == name \in MatchingNames(ns)

(* Event::Applied, api.list_metadata(lp) answers.                          *)
HandleApplied(ns) ==
    /\ Watching(ns, "Applied")
    /\ queue' = [queue EXCEPT ![ns] = Tail(@)]
    /\ IF still_present(ns, Head(queue[ns]).name)
       THEN /\ rw' = [rw EXCEPT ![ns] =
                         BeginUpsert(Handled([@ EXCEPT !.again = SameAsLast(rw[ns], Head(queue[ns]))],
                                             Head(queue[ns]), "upsert"),
                                     Head(queue[ns]))]
            /\ UNCHANGED monitored_ingress_host_paths
       ELSE /\ monitored_ingress_host_paths' =
                  remove_ingress_host_paths(monitored_ingress_host_paths,
                                            Head(queue[ns]).items)
            /\ rw' = [rw EXCEPT ![ns] = Handled(@, Head(queue[ns]), "remove")]
    /\ UNCHANGED <<envVars, health_ready, hostPaths, serviceMonitors, podMonitors>>

(* Variant: when api.list_metadata(lp) fails the rule is taken to be gone  *)
(* and its entries are removed before the stream ends.                     *)
HandleAppliedListError_removes(ns) ==
    /\ Watching(ns, "Applied")
    /\ queue' = [queue EXCEPT ![ns] = <<>>]
    /\ monitored_ingress_host_paths' =
          remove_ingress_host_paths(monitored_ingress_host_paths, Head(queue[ns]).items)
    /\ rw' = [rw EXCEPT ![ns] =
                 IdleTask(Handled(@, Head(queue[ns]), "error"), "ended", <<>>)]
    /\ UNCHANGED <<envVars, health_ready, hostPaths, serviceMonitors, podMonitors>>

(* Event::Applied, api.list_metadata(lp) fails: the closure returns Err    *)
(* and try_for_each ends the stream.                                       *)
HandleAppliedListError(ns) ==
    /\ Watching(ns, "Applied")
    /\ queue' = [queue EXCEPT ![ns] = <<>>]
    /\ rw' = [rw EXCEPT ![ns] =
                 IdleTask(Handled(@, Head(queue[ns]), "error"), "ended", <<>>)]
    /\ UNCHANGED <<envVars, health_ready, monitored_ingress_host_paths,
                   hostPaths, serviceMonitors, podMonitors>>

(* Variant: Event::Restarted empties the map, for the events that follow   *)
(* to fill it again.                                                       *)
HandleRestarted_clears(ns) ==
    /\ Watching(ns, "Restarted")
    /\ queue' = [queue EXCEPT ![ns] = Tail(@)]
    /\ rw' = [rw EXCEPT ![ns] = Handled(@, Head(queue[ns]), "none")]
    /\ monitored_ingress_host_paths' = [k \in AllKeys |-> None]
    /\ UNCHANGED <<envVars, health_ready, hostPaths, serviceMonitors, podMonitors>>

(* Event::Restarted.                                                       *)
HandleRestarted(ns) ==
    /\ Watching(ns, "Restarted")
    /\ queue' = [queue EXCEPT ![ns] = Tail(@)]
    /\ rw' = [rw EXCEPT ![ns] = Handled(@, Head(queue[ns]), "none")]
    /\ UNCHANGED <<envVars, health_ready, monitored_ingress_host_paths,
                   hostPaths, serviceMonitors, podMonitors>>

(* The watch stream yields an error.                                       *)
WatchError(ns) ==
    /\ rw[ns].st = "watch" /\ rw[ns].cur = None
    /\ queue' = [queue EXCEPT ![ns] = <<>>]
    /\ rw' = [rw EXCEPT ![ns] = IdleTask(@, "ended", <<>>)]
    /\ UNCHANGED <<envVars, health_ready, monitored_ingress_host_paths,
                   hostPaths, serviceMonitors, podMonitors>>

(* update_ingress_host_paths for one item: the insert of a new entry when  *)
(* the key is absent, the get, and service_name_update.                    *)
UpsertServiceName(ns) ==
    /\ rw[ns].ph = "svc"
    /\ Unwrap(rw[ns].cur).items[rw[ns].i].service # BackendServiceNone
    /\ LET item == Unwrap(rw[ns].cur).items[rw[ns].i]
           key == identifier(item.host, item.path)
           absent == ~IsSome(monitored_ingress_host_paths[key])
           hps0 == IF absent
                   THEN Append(hostPaths,
                               IngressHostPath_new(item.host, item.path,
                                                   Len(serviceMonitors) + 1))
                   ELSE hostPaths
           sms0 == IF absent
                   THEN Append(serviceMonitors,
                               ServiceMonitor_new(ns, item.service, Len(hostPaths) + 1))
                   ELSE serviceMonitors
           e == IF absent THEN Len(hostPaths) + 1
                ELSE Unwrap(monitored_ingress_host_paths[key])
           r == service_name_update(hps0, sms0, podMonitors, e, item.service)
       IN  /\ monitored_ingress_host_paths' =
                 [monitored_ingress_host_paths EXCEPT ![key] = Some(e)]
           /\ hostPaths' = r.hps
           /\ serviceMonitors' = r.sms
           /\ podMonitors' = r.pms
           /\ rw' = [rw EXCEPT ![ns] =
                        IF r.changed
                        THEN [@ EXCEPT !.ph = "svcStore", !.e = e, !.t = now,
                                       !.before = hps0[e].updated_millis,
                                       !.fresh = absent]
                        ELSE [@ EXCEPT !.ph = "ann", !.e = e, !.fresh = absent]]
    /\ UNCHANGED <<envVars, queue, health_ready>>

(* self.updated_millis.store(..) of service_name_update.                   *)
UpsertServiceNameStore(ns) ==
    /\ rw[ns].ph = "svcStore"
    /\ hostPaths' = [hostPaths EXCEPT ![rw[ns].e].updated_millis = rw[ns].t]
    /\ rw' = [rw EXCEPT ![ns] = [@ EXCEPT !.ph = "ann", !.t = 0, !.before = 0]]
    /\ UNCHANGED <<envVars, queue, health_ready, monitored_ingress_host_paths,
                   serviceMonitors, podMonitors>>

(* The filter of the annotations and the comparison of annotations_update. *)
UpsertAnnotations(ns) ==
    /\ rw[ns].ph = "ann"
    /\ LET annotations == FilterAnnotations(Unwrap(rw[ns].cur).annotations, tag_prefix)
       IN  rw' = [rw EXCEPT ![ns] =
                     IF AnnotationsChanged(hostPaths[rw[ns].e].annotations, annotations)
                     THEN [@ EXCEPT !.ph = "annClear"]
                     ELSE NextItem(@)]
    /\ UNCHANGED <<envVars, queue, health_ready, monitored_ingress_host_paths,
                   hostPaths, serviceMonitors, podMonitors>>

(* annotations_update: self.annotations.clear().  When there is nothing to *)
(* insert, the clock is read for the store.                                *)
AnnotationsClear(ns) ==
    /\ rw[ns].ph = "annClear"
    /\ LET annotations == FilterAnnotations(Unwrap(rw[ns].cur).annotations, tag_prefix)
           e == rw[ns].e
       IN  /\ hostPaths' = [hostPaths EXCEPT ![e].annotations = <<>>]
           /\ rw' = [rw EXCEPT ![ns] =
                        IF DOMAIN annotations = {}
                        THEN [@ EXCEPT !.ph = "annStore", !.t = now,
                                       !.before = hostPaths[e].updated_millis]
                        ELSE [@ EXCEPT !.ph = "annInsert"]]
    /\ UNCHANGED <<envVars, queue, health_ready, monitored_ingress_host_paths,
                   serviceMonitors, podMonitors>>

(* annotations_update: one insert of the for_each over the new map, in the *)
(* order of its keys.  After the last one the clock is read for the store. *)
AnnotationsInsert(ns) ==
    /\ rw[ns].ph = "annInsert"
    /\ LET annotations == FilterAnnotations(Unwrap(rw[ns].cur).annotations, tag_prefix)
           e == rw[ns].e
           order == SortedKeys(DOMAIN annotations)
           k == order[rw[ns].j + 1]
           stored == skipmap_insert(hostPaths[e].annotations, k, annotations[k])
       IN  /\ hostPaths' = [hostPaths EXCEPT ![e].annotations = stored]
           /\ rw' = [rw EXCEPT ![ns] =
                        IF rw[ns].j + 1 = Len(order)
                        THEN [@ EXCEPT !.ph = "annStore", !.j = 0, !.t = now,
                                       !.before = hostPaths[e].updated_millis]
                        ELSE [@ EXCEPT !.j = @ + 1]]
    /\ UNCHANGED <<envVars, queue, health_ready, monitored_ingress_host_paths,
                   serviceMonitors, podMonitors>>

(* self.updated_millis.store(..) of annotations_update.                    *)
UpsertAnnotationsStore(ns) ==
    /\ rw[ns].ph = "annStore"
    /\ hostPaths' = [hostPaths EXCEPT ![rw[ns].e].updated_millis = rw[ns].t]
    /\ rw' = [rw EXCEPT ![ns] = NextItem(@)]
    /\ UNCHANGED <<envVars, queue, health_ready, monitored_ingress_host_paths,
                   serviceMonitors, podMonitors>>

-----------------------------------------------------------------------------
(* The task of a ServiceMonitor: handle_update for every Service of the    *)
(* reflector stream.                                                       *)

ruleVars == <<app_config, k8s_resource_stream, namespaces, tag_prefix, apiRules, missed, queue, rw, health_ready, monitored_ingress_host_paths>>

(* A store to updated_millis that a task has read the clock for: t is the  *)
(* value read; before (history) is the value of updated_millis then.       *)
Pending(clock, hp) == Some([t |-> clock, before |-> hostPaths[hp].updated_millis])

(* Variant: the selector of the PodMonitor held is not compared.           *)
handle_update_service_always(sm, pms, selector) ==
    LET label_selector == RenderSelector(selector)
        new == Len(pms) + 1
        old_pod_monitor == OptionInsertReturn(sm.pod_monitor, new)
        pms1 == Append(pms, PodMonitor_new(sm.namespace, label_selector, sm.host_path))
    IN  [ sm |-> [sm EXCEPT !.pod_monitor = Some(new)],
          pms |-> [pms1 EXCEPT ![Unwrap(old_pod_monitor)] =
                      PodMonitor_abort_background_tasks(@)],
          changed |-> TRUE ]

(* ServiceMonitor::handle_update up to the read of the clock: the          *)
(* ServiceMonitor and the PodMonitor table after it, and whether the       *)
(* selector had changed.                                                   *)
handle_update_service(sm, pms, selector) ==
    LET label_selector == RenderSelector(selector)
        changed == ~(/\ IsSome(sm.pod_monitor)
                     /\ pms[Unwrap(sm.pod_monitor)].label_selector = label_selector)
        new == Len(pms) + 1
        old_pod_monitor == OptionInsertReturn(sm.pod_monitor, new)
        pms1 == Append(pms, PodMonitor_new(sm.namespace, label_selector, sm.host_path))
    IN  IF changed
        THEN [ sm |-> [sm EXCEPT !.pod_monitor = Some(new)],
               pms |-> IF IsSome(old_pod_monitor)
                       THEN [pms1 EXCEPT ![Unwrap(old_pod_monitor)] =
                                PodMonitor_abort_background_tasks(@)]
                       ELSE pms1,
               changed |-> TRUE ]
        ELSE [ sm |-> sm, pms |-> pms, changed |-> FALSE ]

ServiceHandleUpdate(s, selector) ==
    /\ events < MaxEvents
    /\ serviceMonitors[s].task = "live"
    /\ serviceMonitors[s].pending = None
    /\ LET r == handle_update_service(serviceMonitors[s], podMonitors, selector)
       IN  /\ serviceMonitors' =
                 [serviceMonitors EXCEPT ![s] =
                     IF r.changed
                     THEN [r.sm EXCEPT !.pending = Pending(now, r.sm.host_path)]
                     ELSE r.sm]
           /\ podMonitors' = r.pms
           /\ events' = IF r.changed THEN events + 1 ELSE events
    /\ UNCHANGED <<now, ruleVars, hostPaths>>

(* self.updated_millis.store(..) of handle_update: no suspension point     *)
(* lies between the read of the clock and the store, so an abort of the    *)
(* task does not prevent it.                                               *)
ServiceStore(s) ==
    /\ IsSome(serviceMonitors[s].pending)
    /\ hostPaths' = [hostPaths EXCEPT ![serviceMonitors[s].host_path].updated_millis =
                        Unwrap(serviceMonitors[s].pending).t]
    /\ serviceMonitors' = [serviceMonitors EXCEPT ![s].pending = None]
    /\ UNCHANGED <<now, events, ruleVars, podMonitors>>

(* The reflector stream yields an error: the task logs it and ends.        *)
ServiceStreamError(s) ==
    /\ events < MaxEvents
    /\ serviceMonitors[s].task = "live"
    /\ serviceMonitors[s].pending = None
    /\ serviceMonitors' = [serviceMonitors EXCEPT ![s].task = "ended"]
    /\ events' = events + 1
    /\ UNCHANGED <<now, ruleVars, hostPaths, podMonitors>>

-----------------------------------------------------------------------------
(* The watch task of a PodMonitor: handle_update for every Pod of the      *)
(* reflector stream.                                                       *)

(* Variant: every owner of the Pod counts as new.                          *)
NewOwners_every_owner(pm, owners) == SeqRange(OwnerKeys(owners))

(* The owners of the Pod that get_or_insert_with inserts.                  *)
NewOwners(pm, owners) == SeqRange(OwnerKeys(owners)) \ DOMAIN pm.owner_references

(* PodMonitor::handle_update up to the read of the clock: owner_references *)
(* after the get_or_insert_with of every owner of the Pod.                 *)
handle_update_pod(pm, owners, clock) ==
    LET old == pm.owner_references
    IN  [k \in DOMAIN old \cup NewOwners(pm, owners) |->
            IF k \in DOMAIN old THEN old[k] ELSE now_as_secs(clock)]

PodHandleUpdate(p, owners) ==
    /\ events < MaxEvents
    /\ podMonitors[p].watch_task = "live"
    /\ podMonitors[p].pending = None
    /\ LET changed == NewOwners(podMonitors[p], owners) # {}
       IN  /\ podMonitors' =
                 [podMonitors EXCEPT
                     ![p].owner_references = handle_update_pod(podMonitors[p], owners, now),
                     ![p].pending = IF changed THEN Pending(now, podMonitors[p].host_path)
                                    ELSE None]
           /\ events' = IF changed THEN events + 1 ELSE events
    /\ UNCHANGED <<now, ruleVars, hostPaths, serviceMonitors>>

(* self.updated_millis.store(..) of handle_update.                         *)
PodStore(p) ==
    /\ IsSome(podMonitors[p].pending)
    /\ hostPaths' = [hostPaths EXCEPT ![podMonitors[p].host_path].updated_millis =
                        Unwrap(podMonitors[p].pending).t]
    /\ podMonitors' = [podMonitors EXCEPT ![p].pending = None]
    /\ UNCHANGED <<now, events, ruleVars, serviceMonitors>>

(* The reflector stream yields an error: the task logs it and ends.        *)
PodStreamError(p) ==
    /\ events < MaxEvents
    /\ podMonitors[p].watch_task = "live"
    /\ podMonitors[p].pending = None
    /\ podMonitors' = [podMonitors EXCEPT ![p].watch_task = "ended"]
    /\ events' = events + 1
    /\ UNCHANGED <<now, ruleVars, hostPaths, serviceMonitors>>

-----------------------------------------------------------------------------

ApiActions(R) ==
    \/ \E r \in R, c \in RuleContents : ApiCreate(r, c)
    \/ \E r \in R, c \in RuleContents : ApiModify(r, c)
    \/ \E r \in R, type \in {"Applied", "Deleted"} : ApiUnlabel(r, type)
    \/ \E r \in R : ApiRelabel(r)
    \/ \E r \in R : ApiDelete(r)
    \/ \E ns \in namespaces : WatchRestart(ns)

RuleWatcherActions ==
    \/ \E ns \in namespaces : ListIngresses(ns)
    \/ \E ns \in namespaces : ListIngressesError(ns)
    \/ \E ns \in namespaces : InitUpsert(ns)
    \/ \E ns \in namespaces : InitDone(ns)
    \/ \E ns \in namespaces : HandleDeleted(ns)
    \/ \E ns \in namespaces : HandleApplied(ns)
    \/ \E ns \in namespaces : HandleAppliedListError(ns)
    \/ \E ns \in namespaces : HandleRestarted(ns)
    \/ \E ns \in namespaces : WatchError(ns)
    \/ \E ns \in namespaces : UpsertServiceName(ns)
    \/ \E ns \in namespaces : UpsertServiceNameStore(ns)
    \/ \E ns \in namespaces : UpsertAnnotations(ns)
    \/ \E ns \in namespaces : AnnotationsClear(ns)
    \/ \E ns \in namespaces : AnnotationsInsert(ns)
    \/ \E ns \in namespaces : UpsertAnnotationsStore(ns)

MonitorActions ==
    \/ \E s \in DOMAIN serviceMonitors, sel \in SelectorMaps : ServiceHandleUpdate(s, sel)
    \/ \E s \in DOMAIN serviceMonitors : ServiceStore(s)
    \/ \E s \in DOMAIN serviceMonitors : ServiceStreamError(s)
    \/ \E p \in DOMAIN podMonitors, owners \in OwnerLists : PodHandleUpdate(p, owners)
    \/ \E p \in DOMAIN podMonitors : PodStore(p)
    \/ \E p \in DOMAIN podMonitors : PodStreamError(p)

(* One namespace and one rule: the whole hierarchy under the rule.         *)
Init ==
    /\ namespaces = {"nsA"}
    /\ tag_prefix = annotation_prefix
    /\ InitRest
    /\ \A r \in RuleNames \ {"r1"} : ~apiRules[r].present

Next ==
    \/ Tick
    \/ ApiActions({"r1"})
    \/ RuleWatcherActions
    \/ MonitorActions

Spec == Init /\ [][Next]_vars

(* One namespace and two rules: the map of entries under every sequence    *)
(* of events of the rules.                                                 *)
InitCatalog ==
    /\ namespaces = {"nsA"}
    /\ tag_prefix = annotation_prefix
    /\ InitRest

NextCatalog ==
    \/ ApiActions({"r1", "r2"})
    \/ RuleWatcherActions

SpecCatalog == InitCatalog /\ [][NextCatalog]_vars

-----------------------------------------------------------------------------
(* What the properties speak of.                                           *)

(* The keys of the map, and the entry under a key.                         *)
CatalogKeys == { k \in AllKeys : IsSome(monitored_ingress_host_paths[k]) }
InCatalog(e) == \E k \in AllKeys : monitored_ingress_host_paths[k] = Some(e)

(* The host+path strings of the rules that match the label selector in a   *)
(* watched namespace.                                                      *)
MatchingKeys ==
    UNION { ItemKeys(apiRules[r].items) :
              r \in { q \in RuleNames : /\ RuleNamespace(q) \in namespaces
                                        /\ apiRules[q].present
                                        /\ apiRules[q].matching } }

(* Every namespace task watches, has nothing at hand and nothing queued,   *)
(* and every change of a rule has been delivered as an event.              *)
AllEventsProcessed ==
    /\ missed = {}
    /\ \A ns \in namespaces :
          rw[ns].st = "watch" /\ rw[ns].cur = None /\ queue[ns] = <<>>

(* The ServiceMonitors and PodMonitors made for the entry e.               *)
ServiceMonitorsOf(e) == { s \in DOMAIN serviceMonitors : serviceMonitors[s].host_path = e }
PodMonitorsOf(e) == { p \in DOMAIN podMonitors : podMonitors[p].host_path = e }

Slot(e) == Unwrap(hostPaths[e].service_monitor)

-----------------------------------------------------------------------------
(* C1: once every delivered watch event has been processed, the keys of    *)
(* the map are exactly the host+path strings of the rules that currently   *)
(* match the label selector.                                               *)
C1_CatalogEqualsMatching ==
    AllEventsProcessed => CatalogKeys = MatchingKeys

(* C2: the updated_millis of an entry never decreases from one state to    *)
(* the next (the clock itself never does).                                 *)
C2_UpdatedNeverDecreases ==
    [][ \A e \in DOMAIN hostPaths :
            hostPaths'[e].updated_millis >= hostPaths[e].updated_millis ]_vars

(* C3: an entry that has been removed from the map has no live task: not   *)
(* the task of a ServiceMonitor made for it, nor the watch or sweep task   *)
(* of a PodMonitor made for it.                                            *)
C3_RemovedEntryHasNoLiveTask ==
    \A e \in DOMAIN hostPaths :
        ~InCatalog(e) =>
            /\ \A s \in ServiceMonitorsOf(e) : serviceMonitors[s].task # "live"
            /\ \A p \in PodMonitorsOf(e) :
                  podMonitors[p].watch_task # "live" /\ podMonitors[p].sweep_task # "live"

(* C4: when an upsert finds the entry with a ServiceMonitor for another    *)
(* service name, then after service_name_update exactly one task of the    *)
(* ServiceMonitors made for the entry is live, it is the one in the slot,  *)
(* it watches the new name, and the task of the former one is not live.    *)
C4_ServiceSwap ==
    [][ \A ns \in namespaces :
          LET item == Unwrap(rw[ns].cur).items[rw[ns].i]
              key == identifier(item.host, item.path)
              e == Unwrap(monitored_ingress_host_paths[key])
              s1 == Unwrap(hostPaths[e].service_monitor)
              s2 == Unwrap(hostPaths'[e].service_monitor)
          IN  ( /\ UpsertServiceName(ns)
                /\ IsSome(monitored_ingress_host_paths[key])
                /\ serviceMonitors[s1].service_name # item.service )
              => /\ s2 # s1
                 /\ serviceMonitors'[s2].service_name = item.service
                 /\ serviceMonitors'[s2].task = "live"
                 /\ serviceMonitors'[s1].task # "live"
                 /\ { s \in DOMAIN serviceMonitors' :
                        /\ serviceMonitors'[s].host_path = e
                        /\ serviceMonitors'[s].task = "live" } = {s2} ]_vars

(* An entry of the map whose ServiceMonitor was replaced: the former one   *)
(* is aborted, the one in the slot is live and has another name.           *)
C4_Witness ==
    \E e \in DOMAIN hostPaths :
        /\ InCatalog(e)
        /\ serviceMonitors[Slot(e)].task = "live"
        /\ \E s \in ServiceMonitorsOf(e) \ {Slot(e)} :
              /\ serviceMonitors[s].task = "aborted"
              /\ serviceMonitors[s].service_name # serviceMonitors[Slot(e)].service_name

(* C5: when a ServiceMonitor replaces its PodMonitor (the selector of the  *)
(* Service has changed), the one it held before is aborted: neither of     *)
(* its tasks is live any more.                                             *)
C5_PriorPodMonitorAborted ==
    [][ \A s \in DOMAIN serviceMonitors :
          LET old == serviceMonitors[s].pod_monitor
              new == serviceMonitors'[s].pod_monitor
          IN  (IsSome(old) /\ new # old)
              => /\ IsSome(new)
                 /\ podMonitors'[Unwrap(old)].watch_task # "live"
                 /\ podMonitors'[Unwrap(old)].sweep_task # "live" ]_vars

(* C6 as stated: every entry of the map has exactly one live ServiceMonitor *)
(* task, that of the ServiceMonitor in its slot.                           *)
C6_ExactlyOneLiveServiceMonitor ==
    \A e \in DOMAIN hostPaths :
        InCatalog(e) =>
            /\ IsSome(hostPaths[e].service_monitor)
            /\ { s \in ServiceMonitorsOf(e) : serviceMonitors[s].task = "live" } = {Slot(e)}

(* C6 as amended: the slot of every entry of the map is never empty and    *)
(* holds a ServiceMonitor made for the entry that has not been aborted     *)
(* (its task is live, or has ended on a stream error); no other            *)
(* ServiceMonitor made for the entry has a live task.                      *)
C6_SlotHoldsTheOnlyServiceMonitor ==
    \A e \in DOMAIN hostPaths :
        InCatalog(e) =>
            /\ IsSome(hostPaths[e].service_monitor)
            /\ Slot(e) \in ServiceMonitorsOf(e)
            /\ serviceMonitors[Slot(e)].task \in {"live", "ended"}
            /\ \A s \in ServiceMonitorsOf(e) \ {Slot(e)} : serviceMonitors[s].task # "live"

(* An entry of the map whose ServiceMonitor was replaced and whose current *)
(* ServiceMonitor has ended on a stream error.                             *)
C6_Witness ==
    \E e \in DOMAIN hostPaths :
        /\ InCatalog(e)
        /\ serviceMonitors[Slot(e)].task = "ended"
        /\ ServiceMonitorsOf(e) \ {Slot(e)} # {}

(* C7: the store that follows the sight of a new owner leaves              *)
(* updated_millis strictly greater than it was when the Pod was handled.   *)
C7_NewOwnerStrictIncrease ==
    [][ \A p \in DOMAIN podMonitors :
          (IsSome(podMonitors[p].pending) /\ podMonitors'[p].pending = None)
          => hostPaths'[podMonitors[p].host_path].updated_millis
                > Unwrap(podMonitors[p].pending).before ]_vars

(* C8: for an entry that was in the map before the upsert, the store that  *)
(* follows a change of the service name or of the filtered annotations     *)
(* leaves updated_millis strictly greater than it was when the change was  *)
(* found.                                                                  *)
C8_UpsertStrictIncrease ==
    [][ \A ns \in namespaces :
          ( /\ UpsertServiceNameStore(ns) \/ UpsertAnnotationsStore(ns)
            /\ ~rw[ns].fresh )
          => hostPaths'[rw[ns].e].updated_millis > rw[ns].before ]_vars

(* C9 as stated: once the Applied event of a rule that no longer matches   *)
(* has been taken from the stream, no key of the rule is in the map.       *)
C9_AppliedUnmatchedRemoves ==
    [][ \A ns \in namespaces :
          ( /\ HandleApplied(ns) \/ HandleAppliedListError(ns)
            /\ Head(queue[ns]).name \notin MatchingNames(ns) )
          => \A k \in ItemKeys(Head(queue[ns]).items) :
                monitored_ingress_host_paths'[k] = None ]_vars

(* C9 as amended: the same, when the metadata list of the handler          *)
(* succeeds.                                                               *)
C9_AppliedUnmatchedRemovesWhenListed ==
    [][ \A ns \in namespaces :
          ( /\ HandleApplied(ns)
            /\ Head(queue[ns]).name \notin MatchingNames(ns) )
          => \A k \in ItemKeys(Head(queue[ns]).items) :
                monitored_ingress_host_paths'[k] = None ]_vars

(* The task has handled the Applied event of a rule that no longer         *)
(* matched by removing an entry that had been made for the rule's key.     *)
C9_Witness ==
    \E ns \in namespaces :
        /\ rw[ns].last.type = "Applied"
        /\ rw[ns].last.outcome = "remove"
        /\ \E e \in DOMAIN hostPaths :
              /\ identifier(hostPaths[e].host, hostPaths[e].path) \in ItemKeys(rw[ns].last.items)
              /\ ~InCatalog(e)

(* C10: once a Deleted event has been handled, no key of a (host, path)    *)
(* of its rule is in the map.                                              *)
C10_DeletedRemoves ==
    [][ \A ns \in namespaces :
          HandleDeleted(ns)
          => \A k \in ItemKeys(Head(queue[ns]).items) :
                monitored_ingress_host_paths'[k] = None ]_vars

(* The task has handled the Deleted event of a rule with two (host, path)  *)
(* items for which entries had been made; none of its keys is in the map.  *)
C10_Witness ==
    \E ns \in namespaces :
        /\ rw[ns].last.type = "Deleted"
        /\ Cardinality(ItemKeys(rw[ns].last.items)) = 2
        /\ \A k \in ItemKeys(rw[ns].last.items) :
              /\ monitored_ingress_host_paths[k] = None
              /\ \E e \in DOMAIN hostPaths : identifier(hostPaths[e].host, hostPaths[e].path) = k

-----------------------------------------------------------------------------
(* The step that ends update_ingress_host_paths for an event of the watch. *)
UpsertOfEventEnds(ns) ==
    /\ rw[ns].st = "watch"
    /\ IsSome(rw[ns].cur)
    /\ rw'[ns].cur = None

(* C11: in a cluster whose only rule is r1, so that every key of the map   *)
(* is one the rule carried at some time, the map holds no key that the     *)
(* rule of the Applied event does not carry once the upsert of the event   *)
(* has ended.                                                              *)
C11_ModifiedRuleDropsKey ==
    [][ \A ns \in namespaces :
          UpsertOfEventEnds(ns)
          => \A k \in AllKeys :
                IsSome(monitored_ingress_host_paths'[k])
                => k \in ItemKeys(Unwrap(rw[ns].cur).items) ]_vars

-----------------------------------------------------------------------------
(* One rule that is written again and again without a change of its rules  *)
(* or annotations.  The rule may list a (host, path) twice, with the same  *)
(* backend service or with two.                                            *)

ReapplyContents ==
    { Content(<<Item(<<"a.example">>, <<"/app">>, "svc-a")>>,
              (<<"microfe/", "team">> :> "finance") @@ (<<"other">> :> "x")),
      Content(<<Item(<<"a.example">>, <<"/app">>, "svc-a"),
                Item(<<"a.example">>, <<"/app">>, "svc-a")>>,
              (<<"microfe/", "team">> :> "finance")),
      Content(<<Item(<<"a.example">>, <<"/app">>, "svc-a"),
                Item(<<"a.example">>, <<"/app">>, "svc-b")>>,
              (<<"microfe/", "team">> :> "finance")) }

InitReapply ==
    /\ namespaces = {"nsA"}
    /\ tag_prefix = annotation_prefix
    /\ InitWith(ReapplyContents)
    /\ \A r \in RuleNames : apiRules[r].present <=> r = "r1"

NextReapply ==
    \/ Tick
    \/ ApiTouch("r1")
    \/ \E ns \in namespaces : ListIngresses(ns)
    \/ \E ns \in namespaces : InitUpsert(ns)
    \/ \E ns \in namespaces : InitDone(ns)
    \/ \E ns \in namespaces : HandleApplied(ns)
    \/ \E ns \in namespaces : UpsertServiceName(ns)
    \/ \E ns \in namespaces : UpsertServiceNameStore(ns)
    \/ \E ns \in namespaces : UpsertAnnotations(ns)
    \/ \E ns \in namespaces : AnnotationsClear(ns)
    \/ \E ns \in namespaces : AnnotationsInsert(ns)
    \/ \E ns \in namespaces : UpsertAnnotationsStore(ns)
    \/ \E s \in DOMAIN serviceMonitors, sel \in SelectorMaps : ServiceHandleUpdate(s, sel)
    \/ \E s \in DOMAIN serviceMonitors : ServiceStore(s)

SpecReapply == InitReapply /\ [][NextReapply]_vars

(* A step of update_ingress_host_paths.                                    *)
UpsertStep(ns) ==
    \/ UpsertServiceName(ns)
    \/ UpsertServiceNameStore(ns)
    \/ UpsertAnnotations(ns)
    \/ AnnotationsClear(ns)
    \/ AnnotationsInsert(ns)
    \/ UpsertAnnotationsStore(ns)

(* C12: no step of the upsert of a rule that the task upserted just        *)
(* before, unchanged, changes the map, an entry (annotations,               *)
(* updated_millis, ServiceMonitor held) or a monitor (no abort, no new     *)
(* task).                                                                  *)
C12_ReapplyChangesNothing ==
    [][ \A ns \in namespaces :
          (rw[ns].again /\ UpsertStep(ns))
          => UNCHANGED <<monitored_ingress_host_paths, hostPaths,
                         serviceMonitors, podMonitors>> ]_vars

(* The items of the rule give every (host, path) one backend service.      *)
OneServicePerKey(items) ==
    \A i, j \in 1..Len(items) :
        identifier(items[i].host, items[i].path) = identifier(items[j].host, items[j].path)
        => items[i].service = items[j].service

(* C12 for the rules whose items give every (host, path) one backend       *)
(* service: no step of the repeated upsert changes anything.               *)
C12_ReapplyChangesNothingOneService ==
    [][ \A ns \in namespaces :
          (rw[ns].again /\ UpsertStep(ns) /\ OneServicePerKey(Unwrap(rw[ns].cur).items))
          => UNCHANGED <<monitored_ingress_host_paths, hostPaths,
                         serviceMonitors, podMonitors>> ]_vars

-----------------------------------------------------------------------------
(* One rule whose annotations change, under several annotation prefixes.   *)
(* The keys have the prefix at their beginning, twice, further on, in      *)
(* part, or not at all.                                                    *)

Prefixes == { <<"microfe/">>, <<"app.", "io/">>, <<>> }

AnnotationMaps ==
    { (<<"microfe/", "team">> :> "finance") @@ (<<"other">> :> "x"),
      (<<"microfe/", "microfe/", "team">> :> "retail") @@ (<<"other", "microfe/">> :> "x")
          @@ (<<"microfe/">> :> "x"),
      (<<"microfe/", "team">> :> "retail") @@ (<<"microfe/", "tier">> :> "x"),
      (<<"app.", "io/", "team">> :> "finance") @@ (<<"app.", "team">> :> "x")
          @@ (<<"microfe/", "tier">> :> "retail"),
      <<>> }

AnnotationContents ==
    { Content(<<Item(<<"a.example">>, <<"/app">>, "svc-a")>>, a) : a \in AnnotationMaps }

InitAnnotations ==
    /\ namespaces = {"nsA"}
    /\ tag_prefix \in Prefixes
    /\ InitWith(AnnotationContents)
    /\ \A r \in RuleNames : apiRules[r].present <=> r = "r1"

NextAnnotations ==
    \/ \E c \in AnnotationContents : ApiModify("r1", c)
    \/ \E ns \in namespaces : ListIngresses(ns)
    \/ \E ns \in namespaces : InitUpsert(ns)
    \/ \E ns \in namespaces : InitDone(ns)
    \/ \E ns \in namespaces : HandleApplied(ns)
    \/ \E ns \in namespaces : UpsertServiceName(ns)
    \/ \E ns \in namespaces : UpsertAnnotations(ns)
    \/ \E ns \in namespaces : AnnotationsClear(ns)
    \/ \E ns \in namespaces : AnnotationsInsert(ns)
    \/ \E ns \in namespaces : UpsertAnnotationsStore(ns)

SpecAnnotations == InitAnnotations /\ [][NextAnnotations]_vars

(* A map as the set of its (key, value) pairs.                             *)
Pairs(map) == { <<k, map[k]>> : k \in DOMAIN map }

(* The key begins with the prefix; the key without that beginning.         *)
BeginsWith(k, prefix) ==
    /\ Len(k) >= Len(prefix)
    /\ \A i \in 1..Len(prefix) : k[i] = prefix[i]

WithoutBeginning(k, prefix) == SubSeq(k, Len(prefix) + 1, Len(k))

(* The step with which annotations_update returns for the entry at hand:   *)
(* no change was found, or the last insert was made.                       *)
AnnotationsUpdateReturns(ns) ==
    /\ rw[ns].ph \in {"ann", "annClear", "annInsert"}
    /\ rw'[ns].ph \notin {"ann", "annClear", "annInsert"}

(* C13: when annotations_update returns, the annotations of the entry are  *)
(* the annotations of the rule whose key begins with the prefix, under     *)
(* the key without that beginning, and nothing else.                       *)
C13_StoredAnnotationsAreFiltered ==
    [][ \A ns \in namespaces :
          AnnotationsUpdateReturns(ns)
          => LET R == Unwrap(rw[ns].cur).annotations
             IN  Pairs(hostPaths'[rw[ns].e].annotations) =
                    { <<WithoutBeginning(k, tag_prefix), R[k]>> :
                         k \in { q \in DOMAIN R : BeginsWith(q, tag_prefix) } } ]_vars

(* An entry holds a key that still begins with the (non-empty) prefix: the *)
(* rule had the prefix twice at the beginning of a key.                    *)
C13_Witness ==
    /\ tag_prefix # <<>>
    /\ \E e \in DOMAIN hostPaths :
          /\ \E k \in DOMAIN hostPaths[e].annotations : BeginsWith(k, tag_prefix)
          /\ \E ns \in namespaces : rw[ns].cur = None /\ rw[ns].st = "watch"

(* C14: when annotations_update(M) returns, annotations_map() is M,        *)
(* whatever the entry held before.                                         *)
C14_RoundTrip ==
    [][ \A ns \in namespaces :
          AnnotationsUpdateReturns(ns)
          => Pairs(annotations_map(hostPaths'[rw[ns].e].annotations)) =
                Pairs(FilterAnnotations(Unwrap(rw[ns].cur).annotations, tag_prefix)) ]_vars

(* annotations_update, called for an event of the watch on an entry that   *)
(* was in the map and had been written before, has cleared the map,        *)
(* filled it with the two keys of the new map and is at its store.         *)
C14_Witness ==
    \E ns \in namespaces :
        /\ rw[ns].st = "watch"
        /\ rw[ns].ph = "annStore"
        /\ ~rw[ns].fresh
        /\ Cardinality(DOMAIN hostPaths[rw[ns].e].annotations) = 2
        /\ hostPaths[rw[ns].e].updated_millis # 0

(* C15: a step changes the annotations of an entry only from the set held  *)
(* before to the complete new set: no state shows the map emptied or       *)
(* partly filled.                                                          *)
C15_ReplacementAtomic ==
    [][ \A e \in DOMAIN hostPaths :
          \/ hostPaths'[e].annotations = hostPaths[e].annotations
          \/ \E ns \in namespaces :
                /\ IsSome(rw[ns].cur)
                /\ rw[ns].e = e
                /\ Pairs(hostPaths'[e].annotations) =
                      Pairs(FilterAnnotations(Unwrap(rw[ns].cur).annotations, tag_prefix)) ]_vars

-----------------------------------------------------------------------------
(* Two namespaces, one rule in each; the rule of nsA is at /app and the    *)
(* rule of nsB at /shop.  start_background_monitoring spawns one           *)
(* watch_ingresses task per namespace; the list and the watch of the       *)
(* namespaces in F can fail.                                               *)

NamespaceContents(r) ==
    IF RuleNamespace(r) = "nsA"
    THEN { Content(<<Item(<<"a.example">>, <<"/app">>, "svc-a")>>,
                   (<<"microfe/", "team">> :> "finance") @@ (<<"other">> :> "x")),
           Content(<<Item(<<"a.example">>, <<"/app">>, "svc-b")>>,
                   (<<"microfe/", "team">> :> "retail")) }
    ELSE { Content(<<Item(<<"a.example">>, <<"/shop">>, "svc-a")>>,
                   (<<"other">> :> "x")) }

InitNamespaces ==
    /\ namespaces = {"nsA", "nsB"}
    /\ tag_prefix = annotation_prefix
    /\ InitWith(RuleContents)
    /\ ~apiRules["r2"].present
    /\ \A r \in {"r1", "r3"} :
          apiRules[r].present =>
             Content(apiRules[r].items, apiRules[r].annotations) \in NamespaceContents(r)

(* The steps of the watch_ingresses task of a namespace that go on.        *)
WatchIngresses(ns) ==
    \/ ListIngresses(ns)
    \/ InitUpsert(ns)
    \/ InitDone(ns)
    \/ HandleDeleted(ns)
    \/ HandleApplied(ns)
    \/ UpsertServiceName(ns)
    \/ UpsertServiceNameStore(ns)
    \/ UpsertAnnotations(ns)
    \/ AnnotationsClear(ns)
    \/ AnnotationsInsert(ns)
    \/ UpsertAnnotationsStore(ns)

NextNamespaces(F) ==
    \/ \E r \in {"r1", "r3"} : \E c \in NamespaceContents(r) : ApiCreate(r, c)
    \/ \E r \in {"r1", "r3"} : \E c \in NamespaceContents(r) : ApiModify(r, c)
    \/ \E r \in {"r1", "r3"} : ApiDelete(r)
    \/ \E ns \in namespaces : WatchIngresses(ns)
    \/ \E ns \in F : ListIngressesError(ns)
    \/ \E ns \in F : HandleAppliedListError(ns)
    \/ \E ns \in F : WatchError(ns)

NextAllFail == NextNamespaces({"nsA", "nsB"})

SpecNamespaces == InitNamespaces /\ [][NextAllFail]_vars

(* C16: health_ready is false at the start; it changes only to true, and   *)
(* only in the step of a namespace task that follows the for loop over     *)
(* its whole initial list, whatever the tasks of the other namespaces      *)
(* have done; once true it stays true; a task whose list fails leaves it   *)
(* as it is, and so it is false for ever once every task has ended with    *)
(* it false.                                                               *)
C16_ReadyAfterFirstInitialList ==
    /\ ~health_ready
    /\ [][ /\ health_ready => health_ready'
           /\ (~health_ready /\ health_ready') =>
                 \E ns \in namespaces :
                    /\ rw[ns].st = "init" /\ rw[ns].work = <<>> /\ rw[ns].cur = None
                    /\ rw'[ns].st = "watch"
                    /\ \A r \in MatchingNames(ns) :
                          ns \notin missed => ItemKeys(apiRules[r].items) \subseteq CatalogKeys
           /\ \A ns \in namespaces :
                 (rw[ns].st = "start" /\ rw'[ns].st = "ended") =>
                    health_ready' = health_ready
           /\ ((\A ns \in namespaces : rw[ns].st = "ended") /\ ~health_ready) =>
                 ~health_ready' ]_vars

(* The flag is true by the task of nsA while the task of nsB has not yet   *)
(* listed, or has ended at its list.                                       *)
C16_Witness ==
    /\ health_ready
    /\ rw["nsA"].st = "watch"
    /\ <<"a.example", "/app">> \in CatalogKeys
    /\ rw["nsB"].st \in {"start", "ended"}
    /\ apiRules["r3"].present
    /\ <<"a.example", "/shop">> \notin CatalogKeys

-----------------------------------------------------------------------------
(* The list and the watch of nsB can fail, those of nsA do not.  The       *)
(* runtime runs the task of nsA whenever it has a step to take: the tasks  *)
(* are spawned apart on a multi-thread runtime and none waits on another.  *)

NextOneFails == NextNamespaces({"nsB"})

SpecIsolation ==
    InitNamespaces /\ [][NextOneFails]_vars /\ WF_vars(WatchIngresses("nsA"))

-----------------------------------------------------------------------------
(* The health probes.  IngressMonitor answers all three questions from     *)
(* health_ready or from a constant; the resources turn the answers into a  *)
(* HealthStatus, and as_response into a status code and a body.            *)

is_health_started == health_ready
is_health_ready == health_ready

(* Variant: liveness follows the namespace tasks.                          *)
is_health_live_while_watching == \E ns \in namespaces : rw[ns].st # "ended"

is_health_live == TRUE

http_status(s) ==
    CASE s = "UP" -> 200
      [] s = "DOWN" -> 503
      [] s = "UNDETERMINED" -> 500

as_response(s) == [code |-> http_status(s), status |-> s]

(* GET /health: the three loads happen one after the other, && stops at    *)
(* the first false.  started is what the first load saw, ready and live    *)
(* what the later ones saw.                                                *)
health(started, ready, live) ==
    IF started /\ ready /\ live THEN as_response("UP") ELSE as_response("DOWN")

get_health_ready == IF is_health_ready THEN as_response("UP") ELSE as_response("DOWN")
get_health_live == IF is_health_live THEN as_response("UP") ELSE as_response("DOWN")
get_health_started == IF is_health_started THEN as_response("UP") ELSE as_response("DOWN")

(* C18: in every state started and ready are the same answer and live is   *)
(* true, also once every namespace task has ended; GET /health answers     *)
(* 200 UP when health_ready is true and 503 DOWN when it is false, also    *)
(* when a step of the program falls between its loads; GET /health/live    *)
(* answers 200 UP.                                                         *)
C18_HealthFollowsReady ==
    /\ [](/\ is_health_started = is_health_ready
          /\ is_health_live
          /\ health(is_health_started, is_health_ready, is_health_live) =
                IF health_ready THEN [code |-> 200, status |-> "UP"]
                ELSE [code |-> 503, status |-> "DOWN"]
          /\ get_health_live = [code |-> 200, status |-> "UP"]
          /\ get_health_started = get_health_ready)
    /\ [][ health(is_health_started, is_health_ready', is_health_live') =
              IF health_ready THEN [code |-> 200, status |-> "UP"]
              ELSE [code |-> 503, status |-> "DOWN"] ]_vars

(* Every namespace task has ended, one of them after its initial list:     *)
(* GET /health and GET /health/live answer 200.                            *)
C18_Witness ==
    /\ \A ns \in namespaces : rw[ns].st = "ended"
    /\ health_ready
    /\ health(is_health_started, is_health_ready, is_health_live).code = 200
    /\ get_health_live.code = 200

-----------------------------------------------------------------------------
(* kubers_util::reflector_stream.  The objects of the watched kind have a  *)
(* name and a version that every write raises.  watcher() lists when it is *)
(* first polled and yields the list as Event::Restarted, then yields an    *)
(* Event::Applied or Event::Deleted per change; reflector() applies every  *)
(* event to the store as it passes; stream::select polls the watch         *)
(* portion and the store portion.  Nothing runs before the stream that     *)
(* reflector_stream returns is polled.                                     *)
(* History: atCreation and atList are the objects present at the call and  *)
(* at the list, changes the writes since the call, yielded the items the   *)
(* consumer was given, with the portion or event they came from.           *)

MaxChanges == 3

allButStream ==
    <<app_config, namespaces, tag_prefix, now, apiRules, events, missed, queue, rw, health_ready,
      monitored_ingress_host_paths, hostPaths, serviceMonitors, podMonitors>>

ObjectRef(o, ver) == [name |-> o, ver |-> ver]

PresentObjects(api) == { ObjectRef(o, api[o].ver) : o \in { q \in Objects : api[q].present } }

Yield(ref, kind) == [name |-> ref.name, ver |-> ref.ver, kind |-> kind]

InitReflector ==
    /\ \E api \in [Objects -> {AbsentObject, [present |-> TRUE, ver |-> 1]}] :
          k8s_resource_stream = NotCalled(api)
    /\ app_config = NotLoaded(<<>>, <<>>)
    /\ namespaces = {}
    /\ tag_prefix = annotation_prefix
    /\ now = 0
    /\ apiRules = [r \in RuleNames |-> AbsentRule]
    /\ events = 0
    /\ missed = {}
    /\ queue = <<>>
    /\ rw = <<>>
    /\ health_ready = FALSE
    /\ monitored_ingress_host_paths = [k \in AllKeys |-> None]
    /\ hostPaths = <<>>
    /\ serviceMonitors = <<>>
    /\ podMonitors = <<>>

(* reflector::store(), reflector(writer, watcher(api, watcher_config)),    *)
(* then reader.state() collected into the Vec of the store portion.        *)
reflector_stream ==
    /\ k8s_resource_stream.phase = "none"
    /\ LET store == {}
       IN  k8s_resource_stream' =
              [k8s_resource_stream EXCEPT
                  !.phase = "created",
                  !.store = store,
                  !.store_stream = store,
                  !.atCreation = PresentObjects(k8s_resource_stream.api)]
    /\ UNCHANGED allButStream

(* A write of an object: it is created or modified.                        *)
ObjectApply(o) ==
    /\ k8s_resource_stream.phase \in {"created", "watching"}
    /\ k8s_resource_stream.n < MaxChanges
    /\ LET ver == k8s_resource_stream.api[o].ver + 1
       IN  k8s_resource_stream' =
              [k8s_resource_stream EXCEPT
                  !.n = @ + 1,
                  !.api[o] = [present |-> TRUE, ver |-> ver],
                  !.changes = @ \cup {[name |-> o, ver |-> ver, kind |-> "applied",
                                       phase |-> k8s_resource_stream.phase]},
                  !.pending = IF k8s_resource_stream.phase = "watching"
                              THEN Append(@, [type |-> "Applied",
                                              objs |-> {ObjectRef(o, ver)}])
                              ELSE @]
    /\ UNCHANGED allButStream

ObjectDelete(o) ==
    /\ k8s_resource_stream.phase \in {"created", "watching"}
    /\ k8s_resource_stream.n < MaxChanges
    /\ k8s_resource_stream.api[o].present
    /\ LET ver == k8s_resource_stream.api[o].ver
       IN  k8s_resource_stream' =
              [k8s_resource_stream EXCEPT
                  !.n = @ + 1,
                  !.api[o] = [present |-> FALSE, ver |-> ver],
                  !.changes = @ \cup {[name |-> o, ver |-> ver, kind |-> "deleted",
                                       phase |-> k8s_resource_stream.phase]},
                  !.pending = IF k8s_resource_stream.phase = "watching"
                              THEN Append(@, [type |-> "Deleted",
                                              objs |-> {ObjectRef(o, ver)}])
                              ELSE @]
    /\ UNCHANGED allButStream

(* The store portion is polled: the next item of the Vec, or its end.      *)
PollStoreStream ==
    /\ k8s_resource_stream.phase \in {"created", "watching"}
    /\ ~k8s_resource_stream.store_done
    /\ IF k8s_resource_stream.store_stream = {}
       THEN k8s_resource_stream' = [k8s_resource_stream EXCEPT !.store_done = TRUE]
       ELSE \E ref \in k8s_resource_stream.store_stream :
               k8s_resource_stream' =
                  [k8s_resource_stream EXCEPT
                      !.store_stream = @ \ {ref},
                      !.yielded = @ \cup {Yield(ref, "stored")}]
    /\ UNCHANGED allButStream

(* The watch portion is polled for the first time: the watcher lists.      *)
WatcherList ==
    /\ k8s_resource_stream.phase = "created"
    /\ k8s_resource_stream' =
          [k8s_resource_stream EXCEPT
              !.phase = "watching",
              !.atList = PresentObjects(k8s_resource_stream.api),
              !.pending = <<[type |-> "Restarted",
                             objs |-> PresentObjects(k8s_resource_stream.api)]>>]
    /\ UNCHANGED allButStream

(* Store::apply_watcher_event, by reflector().                             *)
apply_watcher_event(store, ev) ==
    CASE ev.type = "Restarted" -> ev.objs
      [] ev.type = "Applied" ->
            { s \in store : \A ref \in ev.objs : s.name # ref.name } \cup ev.objs
      [] ev.type = "Deleted" ->
            { s \in store : \A ref \in ev.objs : s.name # ref.name }

(* Variant: the objects of a list are not passed on.                       *)
applied_objects_without_list(ev) ==
    CASE ev.type = "Applied" -> { Yield(ref, "applied") : ref \in ev.objs }
      [] ev.type = "Restarted" -> {}
      [] ev.type = "Deleted" -> {}

(* WatchStreamExt::applied_objects: the object of Applied, the objects of  *)
(* Restarted, nothing for Deleted.                                         *)
applied_objects(ev) ==
    CASE ev.type = "Applied" -> { Yield(ref, "applied") : ref \in ev.objs }
      [] ev.type = "Restarted" -> { Yield(ref, "listed") : ref \in ev.objs }
      [] ev.type = "Deleted" -> {}

(* The watch portion is polled and has an event.                           *)
PollWatch ==
    /\ k8s_resource_stream.phase = "watching"
    /\ k8s_resource_stream.pending # <<>>
    /\ LET ev == Head(k8s_resource_stream.pending)
       IN  k8s_resource_stream' =
              [k8s_resource_stream EXCEPT
                  !.pending = Tail(@),
                  !.store = apply_watcher_event(@, ev),
                  !.yielded = @ \cup applied_objects(ev)]
    /\ UNCHANGED allButStream

(* The list or the watch fails: the stream yields the error, and the       *)
(* try_for_each of the consumer ends.                                      *)
WatcherError ==
    /\ k8s_resource_stream.phase \in {"created", "watching"}
    /\ k8s_resource_stream' =
          [k8s_resource_stream EXCEPT !.phase = "ended", !.pending = <<>>]
    /\ UNCHANGED allButStream

NextReflector ==
    \/ reflector_stream
    \/ \E o \in Objects : ObjectApply(o)
    \/ \E o \in Objects : ObjectDelete(o)
    \/ PollStoreStream
    \/ WatcherList
    \/ PollWatch
    \/ WatcherError

SpecReflector == InitReflector /\ [][NextReflector]_vars

(* The consumer has been given all that the stream has for it so far.      *)
StreamDrained ==
    /\ k8s_resource_stream.phase = "watching"
    /\ k8s_resource_stream.pending = <<>>
    /\ k8s_resource_stream.store_done

(* An item for the change c has been yielded: for a write, the object at   *)
(* that version or a later one; for a deletion, an item of the Deleted     *)
(* event.                                                                  *)
ChangeDelivered(c) ==
    IF c.kind = "applied"
    THEN \E y \in k8s_resource_stream.yielded : y.name = c.name /\ y.ver >= c.ver
    ELSE \E y \in k8s_resource_stream.yielded :
            y.name = c.name /\ y.ver = c.ver /\ y.kind = "deleted"

(* C19 as stated: once the stream is drained, every object present when    *)
(* the stream was created has been yielded at least once, and every        *)
(* change since then has been yielded.                                     *)
C19_EveryObjectAndChangeDelivered ==
    StreamDrained =>
       /\ \A ref \in k8s_resource_stream.atCreation :
             \E y \in k8s_resource_stream.yielded : y.name = ref.name
       /\ \A c \in k8s_resource_stream.changes : ChangeDelivered(c)

(* C19, amended: once the stream is drained, every object present at the   *)
(* first list of the watch has been yielded, and so has every object       *)
(* written while the watch runs, at the version written; all items come    *)
(* from the watch portion, the store portion yields nothing, and no item   *)
(* is yielded for a deletion.                                              *)
C19_ListedAndAppliedDelivered ==
    /\ StreamDrained =>
          /\ \A ref \in k8s_resource_stream.atList :
                Yield(ref, "listed") \in k8s_resource_stream.yielded
          /\ \A c \in k8s_resource_stream.changes :
                (c.kind = "applied" /\ c.phase = "watching") =>
                   Yield(c, "applied") \in k8s_resource_stream.yielded
    /\ \A y \in k8s_resource_stream.yielded : y.kind \in {"listed", "applied"}
    /\ k8s_resource_stream.store_stream = {}

(* A listed object, a write and a deletion while the watch runs, all       *)
(* polled by the consumer.                                                 *)
C19_Witness ==
    /\ StreamDrained
    /\ k8s_resource_stream.atList # {}
    /\ \E c \in k8s_resource_stream.changes :
          c.kind = "applied" /\ c.phase = "watching"
    /\ \E c \in k8s_resource_stream.changes :
          c.kind = "deleted" /\ c.phase = "watching"

-----------------------------------------------------------------------------
(* AppConfig::new.  A configuration is a map from (section, key) to a      *)
(* value; the builder holds the defaults, the file overrides them and the  *)
(* environment overrides the file.  try_deserialize fills the fields api,  *)
(* ingress and limits of AppConfig from the sections of these names; a     *)
(* field that is not an Option and has no value is an error, and unwrap    *)
(* panics on it.                                                           *)

ConfigKeys ==
    { <<"ingress", "labels">>, <<"ingress", "annotationprefix">>,
      <<"ingress", "namespaces">> }

ConfigValues(k) ==
    CASE k = <<"ingress", "labels">> -> {"app=fe", "microfe=true"}
      [] k = <<"ingress", "annotationprefix">> -> {"fe/"}
      [] k = <<"ingress", "namespaces">> -> {"nsA,nsB"}

ConfigSources ==
    UNION { { f \in [K -> UNION { ConfigValues(k) : k \in ConfigKeys }] :
                \A k \in K : f[k] \in ConfigValues(k) } : K \in SUBSET ConfigKeys }

allButConfig ==
    <<k8s_resource_stream, namespaces, tag_prefix, now, apiRules, events, missed, queue, rw,
      health_ready, monitored_ingress_host_paths, hostPaths, serviceMonitors, podMonitors>>

InitConfig ==
    /\ \E file \in ConfigSources, env \in ConfigSources : app_config = NotLoaded(file, env)
    /\ k8s_resource_stream = NotCalled([o \in Objects |-> AbsentObject])
    /\ namespaces = {}
    /\ tag_prefix = annotation_prefix
    /\ now = 0
    /\ apiRules = [r \in RuleNames |-> AbsentRule]
    /\ events = 0
    /\ missed = {}
    /\ queue = <<>>
    /\ rw = <<>>
    /\ health_ready = FALSE
    /\ monitored_ingress_host_paths = [k \in AllKeys |-> None]
    /\ hostPaths = <<>>
    /\ serviceMonitors = <<>>
    /\ podMonitors = <<>>

(* set_default(prefix + "." + key, value): a default already set stays     *)
(* under its own key, a new one is added.                                  *)
set_default(builder, prefix, key, value) == (<<prefix, key>> :> value) @@ builder

ApiConfig_set_defaults(builder, prefix) ==
    set_default(set_default(builder, prefix, "address", "0.0.0.0"), prefix, "port", "8083")

IngressFilterConfig_set_defaults(builder, prefix) ==
    set_default(
        set_default(
            set_default(builder, prefix, "labels", "microfe=true"),
            prefix, "annotationprefix", "microfe/"),
        prefix, "namespaces", "")

(* The cgroup has no memory limit here; cpus is what the host reports.     *)
ResourceLimitsConfig_set_defaults(builder, prefix) ==
    set_default(builder, prefix, "cpus", "2")

(* build(): the sources in the order they were added, later ones first.    *)
build(defaults, file, env) == env @@ file @@ defaults

(* A field of type Option<T>.                                              *)
OptionalField(config, section, key) ==
    IF <<section, key>> \in DOMAIN config THEN Some(config[<<section, key>>]) ELSE None

(* try_deserialize::<AppConfig>().                                         *)
try_deserialize(config) ==
    IF \A k \in { <<"api", "address">>, <<"api", "port">>,
                  <<"ingress", "labels">>, <<"ingress", "annotationprefix">>,
                  <<"limits", "cpus">> } : k \in DOMAIN config
    THEN [ ok |-> TRUE,
           value |->
              [ api |-> [ address |-> config[<<"api", "address">>],
                          port |-> config[<<"api", "port">>] ],
                ingress |-> [ labels |-> config[<<"ingress", "labels">>],
                              annotationprefix |->
                                 config[<<"ingress", "annotationprefix">>],
                              namespaces |-> OptionalField(config, "ingress", "namespaces") ],
                limits |-> [ cpus |-> config[<<"limits", "cpus">>],
                             memory |-> OptionalField(config, "limits", "memory") ] ] ]
    ELSE [ ok |-> FALSE, value |-> <<>> ]

AppConfig_new ==
    /\ app_config.loaded = "no"
    /\ LET defaults ==
              ResourceLimitsConfig_set_defaults(
                 IngressFilterConfig_set_defaults(
                    ApiConfig_set_defaults(<<>>, "api"),
                    "ingressfilter"),
                 "limits")
           r == try_deserialize(build(defaults, app_config.file, app_config.env))
       IN  app_config' =
              [app_config EXCEPT !.loaded = IF r.ok THEN "ok" ELSE "panic",
                                 !.value = r.value]
    /\ UNCHANGED allButConfig

NextConfig == AppConfig_new

SpecConfig == InitConfig /\ [][NextConfig]_vars

(* C20: with no configuration file and no environment overrides,           *)
(* AppConfig::new returns, and the labels and the annotation prefix of     *)
(* its ingress section are the defaults microfe=true and microfe/.         *)
C20_DefaultsLoad ==
    (app_config.loaded # "no" /\ app_config.file = <<>> /\ app_config.env = <<>>) =>
       /\ app_config.loaded = "ok"
       /\ app_config.value.ingress.labels = "microfe=true"
       /\ app_config.value.ingress.annotationprefix = "microfe/"

-----------------------------------------------------------------------------
(* C21: once abort_background_tasks of a PodMonitor has returned (its      *)
(* stored handle has been used), its watch task is not live, and no step   *)
(* inserts into its owner_references or reads the clock for a store to     *)
(* updated_millis on its behalf.                                           *)
C21_AbortStopsBothTasks ==
    [][ \A p \in DOMAIN podMonitors :
          podMonitors[p].sweep_task = "aborted" =>
             /\ podMonitors[p].watch_task # "live"
             /\ podMonitors'[p].owner_references = podMonitors[p].owner_references
             /\ (podMonitors[p].pending = None => podMonitors'[p].pending = None) ]_vars

(* C22: in a step of handle_update that installs a PodMonitor, the abort   *)
(* is not applied to the PodMonitor installed: its watch task and its      *)
(* sweep task are live after the step.                                     *)
C22_NewPodMonitorStaysLive ==
    [][ \A s \in DOMAIN serviceMonitors :
          LET old == serviceMonitors[s].pod_monitor
              new == serviceMonitors'[s].pod_monitor
          IN  (IsSome(new) /\ new # old)
              => /\ podMonitors'[Unwrap(new)].watch_task = "live"
                 /\ podMonitors'[Unwrap(new)].sweep_task = "live" ]_vars

-----------------------------------------------------------------------------
(* Two namespaces whose rules carry the same host and path.  The tasks of  *)
(* the namespaces run in parallel on the worker threads of the runtime,    *)
(* so that the steps of update_ingress_host_paths on the shared map        *)
(* interleave: contains_key, then IngressHostPath::new and insert, then    *)
(* get and service_name_update.  (With one task, or with tasks on          *)
(* different keys, no other task touches the key between these steps, and  *)
(* UpsertServiceName takes them as one.)                                   *)

SharedKeyContents(r) ==
    IF RuleNamespace(r) = "nsA"
    THEN { Content(<<Item(<<"a.example">>, <<"/app">>, "svc-a")>>,
                   (<<"microfe/", "team">> :> "retail")) }
    ELSE { Content(<<Item(<<"a.example">>, <<"/app">>, "svc-a")>>,
                   (<<"microfe/", "team">> :> "retail")),
           Content(<<Item(<<"a.example">>, <<"/app">>, "svc-b")>>,
                   (<<"microfe/", "team">> :> "retail")) }

InitSharedKey ==
    /\ namespaces = {"nsA", "nsB"}
    /\ tag_prefix = annotation_prefix
    /\ InitWith(RuleContents)
    /\ ~apiRules["r2"].present
    /\ \A r \in {"r1", "r3"} :
          /\ apiRules[r].present
          /\ Content(apiRules[r].items, apiRules[r].annotations) \in SharedKeyContents(r)

(* !self.monitored_ingress_host_paths.contains_key(&key)                   *)
UpsertContainsKey(ns) ==
    /\ rw[ns].ph = "svc"
    /\ Unwrap(rw[ns].cur).items[rw[ns].i].service # BackendServiceNone
    /\ LET item == Unwrap(rw[ns].cur).items[rw[ns].i]
           key == identifier(item.host, item.path)
       IN  rw' = [rw EXCEPT ![ns] =
                     [@ EXCEPT !.ph = IF IsSome(monitored_ingress_host_paths[key])
                                      THEN "svcGet" ELSE "svcInsert"]]
    /\ UNCHANGED <<envVars, queue, health_ready, monitored_ingress_host_paths,
                   hostPaths, serviceMonitors, podMonitors>>

(* IngressHostPath::new(..), which spawns the task of a ServiceMonitor,    *)
(* and insert(key, value), which replaces what the map holds for the key.  *)
UpsertInsert(ns) ==
    /\ rw[ns].ph = "svcInsert"
    /\ LET item == Unwrap(rw[ns].cur).items[rw[ns].i]
           key == identifier(item.host, item.path)
       IN  /\ hostPaths' = Append(hostPaths,
                                  IngressHostPath_new(item.host, item.path,
                                                      Len(serviceMonitors) + 1))
           /\ serviceMonitors' = Append(serviceMonitors,
                                        ServiceMonitor_new(ns, item.service,
                                                           Len(hostPaths) + 1))
           /\ monitored_ingress_host_paths' =
                 [monitored_ingress_host_paths EXCEPT ![key] = Some(Len(hostPaths) + 1)]
           /\ rw' = [rw EXCEPT ![ns] = [@ EXCEPT !.ph = "svcGet", !.fresh = TRUE]]
    /\ UNCHANGED <<envVars, queue, health_ready, podMonitors>>

(* get(&key).unwrap() and service_name_update on the entry found.          *)
UpsertGet(ns) ==
    /\ rw[ns].ph = "svcGet"
    /\ LET item == Unwrap(rw[ns].cur).items[rw[ns].i]
           key == identifier(item.host, item.path)
       IN  /\ IsSome(monitored_ingress_host_paths[key])
           /\ LET e == Unwrap(monitored_ingress_host_paths[key])
                  r == service_name_update(hostPaths, serviceMonitors, podMonitors,
                                           e, item.service)
              IN  /\ hostPaths' = r.hps
                  /\ serviceMonitors' = r.sms
                  /\ podMonitors' = r.pms
                  /\ rw' = [rw EXCEPT ![ns] =
                               IF r.changed
                               THEN [@ EXCEPT !.ph = "svcStore", !.e = e, !.t = now,
                                              !.before = hostPaths[e].updated_millis]
                               ELSE [@ EXCEPT !.ph = "ann", !.e = e]]
    /\ UNCHANGED <<envVars, queue, health_ready, monitored_ingress_host_paths>>

NextSharedKey ==
    \/ \E ns \in namespaces : ListIngresses(ns)
    \/ \E ns \in namespaces : InitUpsert(ns)
    \/ \E ns \in namespaces : InitDone(ns)
    \/ \E ns \in namespaces : UpsertContainsKey(ns)
    \/ \E ns \in namespaces : UpsertInsert(ns)
    \/ \E ns \in namespaces : UpsertGet(ns)
    \/ \E ns \in namespaces : UpsertServiceNameStore(ns)
    \/ \E ns \in namespaces : UpsertAnnotations(ns)
    \/ \E ns \in namespaces : AnnotationsClear(ns)
    \/ \E ns \in namespaces : AnnotationsInsert(ns)
    \/ \E ns \in namespaces : UpsertAnnotationsStore(ns)

SpecSharedKey == InitSharedKey /\ [][NextSharedKey]_vars

(* The ServiceMonitors with a live task that were made for an entry of     *)
(* the key k.                                                              *)
LiveServiceMonitorsOfKey(k) ==
    { s \in DOMAIN serviceMonitors :
         /\ serviceMonitors[s].task = "live"
         /\ identifier(hostPaths[serviceMonitors[s].host_path].host,
                       hostPaths[serviceMonitors[s].host_path].path) = k }

(* C23: when the tasks of two namespaces upsert rules of the same host and *)
(* path, the entry that the map holds for the key is never replaced by     *)
(* another, every live ServiceMonitor task belongs to an entry of the map, *)
(* and the key has exactly one live ServiceMonitor task.                   *)
C23_OneEntryOneServiceMonitor ==
    /\ [][ \A k \in AllKeys :
              IsSome(monitored_ingress_host_paths[k]) =>
                 monitored_ingress_host_paths'[k] = monitored_ingress_host_paths[k] ]_vars
    /\ [](\A s \in DOMAIN serviceMonitors :
             serviceMonitors[s].task = "live" => InCatalog(serviceMonitors[s].host_path))
    /\ [](\A k \in CatalogKeys : Cardinality(LiveServiceMonitorsOfKey(k)) = 1)

-----------------------------------------------------------------------------
(* annotations_map iterates the SkipMap while annotations_update may be    *)
(* between its clear and its inserts: what it collects is, pair by pair,   *)
(* what the map holds in one of the states that the iteration spans.       *)

(* The pair (k, v) comes into the map of the entry e in this step.         *)
PairEnters(e, k) ==
    /\ k \in DOMAIN hostPaths'[e].annotations
    /\ \/ e \notin DOMAIN hostPaths
       \/ k \notin DOMAIN hostPaths[e].annotations
       \/ hostPaths[e].annotations[k] # hostPaths'[e].annotations[k]

(* The task of ns is in annotations_update on the entry e, and the set it  *)
(* installs has the pair (k, v).                                           *)
Installs(ns, e, k, v) ==
    /\ rw[ns].ph = "annInsert"
    /\ rw[ns].e = e
    /\ LET annotations == FilterAnnotations(Unwrap(rw[ns].cur).annotations, tag_prefix)
       IN  k \in DOMAIN annotations /\ annotations[k] = v

(* C24: an entry is made with an empty map, and a pair comes into the map  *)
(* of an entry, at any moment that a reader can see, only as a pair of the *)
(* annotation set that a running annotations_update installs on that       *)
(* entry: every pair of every snapshot is one the entry was given.         *)
C24_SnapshotPairsWereInstalled ==
    [][ \A e \in DOMAIN hostPaths' :
          \A k \in DOMAIN hostPaths'[e].annotations :
             PairEnters(e, k) =>
                \E ns \in namespaces : Installs(ns, e, k, hostPaths'[e].annotations[k]) ]_vars

(* A reader's moment in the middle of an update: the map holds a part of   *)
(* the set that is being installed.                                        *)
C24_Witness ==
    \E ns \in namespaces :
       /\ rw[ns].ph = "annInsert"
       /\ rw[ns].j >= 1
       /\ hostPaths[rw[ns].e].annotations # <<>>
       /\ hostPaths[rw[ns].e].annotations #
             FilterAnnotations(Unwrap(rw[ns].cur).annotations, tag_prefix)

-----------------------------------------------------------------------------
(* One rule; the Pods that the PodMonitor of its entry is given have one   *)
(* owner, two owners, the same owner twice or an empty list of owners, and *)
(* the clock advances by whole seconds between them, so that the seconds   *)
(* stored in owner_references differ.                                      *)

MaxSeconds == 1

PodOwnerLists ==
    { << <<"ReplicaSet", "rs-1">> >>,
      << <<"ReplicaSet", "rs-2">> >>,
      << <<"ReplicaSet", "rs-1">>, <<"Job", "rs-1">> >>,
      << <<"ReplicaSet", "rs-2">>, <<"ReplicaSet", "rs-2">> >>,
      << >> }

TickSecond ==
    /\ now_as_secs(now) < MaxSeconds
    /\ now' = now + MillisPerSec
    /\ UNCHANGED <<app_config, k8s_resource_stream, namespaces, tag_prefix, apiRules,
                   events, missed, queue, rw, health_ready,
                   monitored_ingress_host_paths, hostPaths, serviceMonitors,
                   podMonitors>>

InitPods ==
    /\ namespaces = {"nsA"}
    /\ tag_prefix = annotation_prefix
    /\ InitRest
    /\ apiRules["r1"].present
    /\ \A r \in RuleNames \ {"r1"} : ~apiRules[r].present

NextPods ==
    \/ TickSecond
    \/ \E ns \in namespaces : ListIngresses(ns)
    \/ \E ns \in namespaces : InitUpsert(ns)
    \/ \E ns \in namespaces : InitDone(ns)
    \/ \E ns \in namespaces : UpsertServiceName(ns)
    \/ \E ns \in namespaces : UpsertAnnotations(ns)
    \/ \E ns \in namespaces : AnnotationsClear(ns)
    \/ \E ns \in namespaces : AnnotationsInsert(ns)
    \/ \E ns \in namespaces : UpsertAnnotationsStore(ns)
    \/ \E s \in DOMAIN serviceMonitors, sel \in SelectorMaps : ServiceHandleUpdate(s, sel)
    \/ \E s \in DOMAIN serviceMonitors : ServiceStore(s)
    \/ \E p \in DOMAIN podMonitors, owners \in PodOwnerLists : PodHandleUpdate(p, owners)
    \/ \E p \in DOMAIN podMonitors : PodStore(p)

SpecPods == InitPods /\ [][NextPods]_vars

(* The kind/name strings of the owner references of a Pod.                 *)
OwnerStrings(owners) == { <<owners[i][1], "/", owners[i][2]>> : i \in 1..Len(owners) }

(* C25: a PodMonitor starts with no owner; every Pod it handles adds the   *)
(* kind/name of each of its owner references to the keys of                *)
(* owner_references, once, and nothing else changes the keys: the keys are *)
(* the distinct owner references of the Pods handled.                      *)
C25_OwnerKeysAreOwnersSeen ==
    [][ \A p \in DOMAIN podMonitors' :
          IF p \notin DOMAIN podMonitors
          THEN podMonitors'[p].owner_references = <<>>
          ELSE /\ \A owners \in PodOwnerLists :
                     PodHandleUpdate(p, owners) =>
                        DOMAIN podMonitors'[p].owner_references =
                           DOMAIN podMonitors[p].owner_references \cup OwnerStrings(owners)
               /\ DOMAIN podMonitors'[p].owner_references #
                     DOMAIN podMonitors[p].owner_references =>
                        \E owners \in PodOwnerLists : PodHandleUpdate(p, owners) ]_vars

(* Pods owned by ReplicaSet/rs-1 and by ReplicaSet/rs-2 have been handled, *)
(* and a further Pod of ReplicaSet/rs-1 can be: exactly two keys.          *)
C25_Witness ==
    \E p \in DOMAIN podMonitors :
       /\ DOMAIN podMonitors[p].owner_references =
             { <<"ReplicaSet", "/", "rs-1">>, <<"ReplicaSet", "/", "rs-2">> }
       /\ podMonitors[p].watch_task = "live"
       /\ podMonitors[p].pending = None

(* C26: handling a Pod whose owner references are all keys of              *)
(* owner_references leaves owner_references, keys and seconds, as they     *)
(* are, reads no clock for a store, and leaves updated_millis of the entry *)
(* as it is.                                                               *)
C26_KnownOwnersChangeNothing ==
    [][ \A p \in DOMAIN podMonitors : \A owners \in PodOwnerLists :
          (/\ PodHandleUpdate(p, owners)
           /\ OwnerStrings(owners) \subseteq DOMAIN podMonitors[p].owner_references)
          => /\ podMonitors'[p].owner_references = podMonitors[p].owner_references
             /\ podMonitors'[p].pending = None
             /\ hostPaths' = hostPaths ]_vars

(* A Pod of a known owner can be handled at a second later than the one    *)
(* stored for the owner.                                                   *)
C26_Witness ==
    \E p \in DOMAIN podMonitors :
       /\ podMonitors[p].watch_task = "live"
       /\ podMonitors[p].pending = None
       /\ events < MaxEvents
       /\ <<"ReplicaSet", "/", "rs-1">> \in DOMAIN podMonitors[p].owner_references
       /\ podMonitors[p].owner_references[<<"ReplicaSet", "/", "rs-1">>] < now_as_secs(now)

(* C27: handling a Service whose selector renders to the label_selector of *)
(* the PodMonitor held changes nothing: no PodMonitor is made, replaced or *)
(* aborted, no task is spawned, no clock is read for a store and           *)
(* updated_millis is as it was.                                            *)
C27_SameSelectorChangesNothing ==
    [][ \A s \in DOMAIN serviceMonitors : \A sel \in SelectorMaps :
          (/\ ServiceHandleUpdate(s, sel)
           /\ IsSome(serviceMonitors[s].pod_monitor)
           /\ podMonitors[Unwrap(serviceMonitors[s].pod_monitor)].label_selector =
                 RenderSelector(sel))
          => /\ serviceMonitors' = serviceMonitors
             /\ podMonitors' = podMonitors
             /\ hostPaths' = hostPaths ]_vars

(* A ServiceMonitor that holds a PodMonitor for app=a, with a Service of   *)
(* that selector still to be handled.                                      *)
C27_Witness ==
    \E s \in DOMAIN serviceMonitors :
       /\ serviceMonitors[s].task = "live"
       /\ serviceMonitors[s].pending = None
       /\ events < MaxEvents
       /\ IsSome(serviceMonitors[s].pod_monitor)
       /\ podMonitors[Unwrap(serviceMonitors[s].pod_monitor)].label_selector =
             <<"app", "=", "a">>

(* C28: the step that takes a Restarted event from the watch of a          *)
(* namespace leaves the map as it is, and every entry with its             *)
(* annotations, its updated_millis and its ServiceMonitor.                 *)
C28_RestartedChangesNothing ==
    [][ \A ns \in namespaces :
          (/\ Watching(ns, "Restarted")
           /\ queue'[ns] = Tail(queue[ns])
           /\ rw'[ns] = Handled(rw[ns], Head(queue[ns]), "none"))
          => /\ monitored_ingress_host_paths' = monitored_ingress_host_paths
             /\ hostPaths' = hostPaths
             /\ serviceMonitors' = serviceMonitors
             /\ podMonitors' = podMonitors
             /\ rw'[ns].st = "watch" ]_vars

(* A Restarted event has been handled with an entry in the map.            *)
C28_Witness ==
    \E ns \in namespaces :
       /\ rw[ns].last.type = "Restarted"
       /\ CatalogKeys # {}

(* The keys that update_ingress_host_paths computes for the rules of a     *)
(* namespace.                                                              *)
KeysOfNamespace(ns) ==
    UNION { { identifier(c.items[i].host, c.items[i].path) : i \in DOMAIN c.items } :
            c \in UNION { NamespaceContents(r) : r \in { q \in {"r1", "r3"} : RuleNamespace(q) = ns } } }

(* C29: a watch_ingresses task that has returned stays returned: it takes  *)
(* no event, and under the keys of its namespace no entry is inserted,     *)
(* changed or removed; the entries it had made stay in the map.            *)
C29_EndedTaskStaysEnded ==
    [][ \A ns \in namespaces :
          rw[ns].st = "ended"
          => /\ rw'[ns] = rw[ns]
             /\ queue'[ns] = <<>>
             /\ \A k \in KeysOfNamespace(ns) :
                   /\ monitored_ingress_host_paths'[k] = monitored_ingress_host_paths[k]
                   /\ IsSome(monitored_ingress_host_paths[k])
                      => hostPaths'[Unwrap(monitored_ingress_host_paths[k])] =
                            hostPaths[Unwrap(monitored_ingress_host_paths[k])] ]_vars

(* The task of a namespace has returned after it made an entry, the rule   *)
(* has been deleted since, the event was not taken and the entry is there. *)
C29_Witness ==
    \E ns \in namespaces :
       /\ rw[ns].st = "ended"
       /\ ns \in missed
       /\ \A r \in {"r1", "r3"} : RuleNamespace(r) = ns => ~apiRules[r].present
       /\ \E k \in KeysOfNamespace(ns) : IsSome(monitored_ingress_host_paths[k])

(* C30: when api.list_metadata fails for an Applied event, the rule of     *)
(* the event is neither upserted nor removed, the map and its entries are  *)
(* as before the event, and the task of the namespace ends.                *)
C30_ListErrorEndsTask ==
    [][ \A ns \in namespaces :
          (/\ Watching(ns, "Applied")
           /\ rw'[ns].last.outcome = "error"
           /\ rw'[ns] # rw[ns])
          => /\ monitored_ingress_host_paths' = monitored_ingress_host_paths
             /\ hostPaths' = hostPaths
             /\ serviceMonitors' = serviceMonitors
             /\ podMonitors' = podMonitors
             /\ rw'[ns].cur = None
             /\ rw'[ns].st = "ended"
             /\ queue'[ns] = <<>> ]_vars

(* The list has failed for an Applied event of a rule whose entry is in    *)
(* the map, and the task has ended.                                        *)
C30_Witness ==
    \E ns \in namespaces :
       /\ rw[ns].st = "ended"
       /\ rw[ns].last.type = "Applied"
       /\ rw[ns].last.outcome = "error"
       /\ \E i \in DOMAIN rw[ns].last.items :
             IsSome(monitored_ingress_host_paths[
                       identifier(rw[ns].last.items[i].host, rw[ns].last.items[i].path)])

-----------------------------------------------------------------------------
(* The owner sweep of a PodMonitor, the second task spawned by             *)
(* start_background_tasks, next to the watch task and to the handle_update *)
(* of the ServiceMonitor that made the PodMonitor and aborts its sweep.    *)
(* One rule; the clock advances by whole seconds.                          *)

(* What api.list(lp) answers: the Pods, each by its ownerReferences.       *)
SweepPodLists ==
    { << >>,
      << << <<"ReplicaSet", "rs-1">> >> >>,
      << << <<"ReplicaSet", "rs-1">> >>, << <<"ReplicaSet", "rs-2">> >> >> }

(* for pod in object_list, for owner in owners_iter: the owners in turn.   *)
RECURSIVE ListedOwners(_)
ListedOwners(pods) ==
    IF pods = <<>> THEN <<>> ELSE OwnerKeys(Head(pods)) \o ListedOwners(Tail(pods))

(* if owner_references.get(&owner).is_some() { insert(owner, now) }        *)
sweep_bump(refs, owner, now_s) ==
    IF owner \in DOMAIN refs THEN skipmap_insert(refs, owner, now_s) ELSE refs

(* Variant: an owner as old as now is removed as well.                     *)
sweep_remove_not_newer(refs, k, now_s) ==
    IF refs[k] <= now_s THEN [x \in DOMAIN refs \ {k} |-> refs[x]] ELSE refs

(* if entry.value() < &now { owner_references.remove(entry.key()) }        *)
sweep_remove(refs, k, now_s) ==
    IF refs[k] < now_s THEN [x \in DOMAIN refs \ {k} |-> refs[x]] ELSE refs

(* The keys that owner_references.iter() has still to reach.               *)
KeysAhead(refs, cursor) ==
    { k \in DOMAIN refs : cursor = None \/ StrLess(Unwrap(cursor), k) }

(* The sweeps that are let past their start.                               *)
MaxSweeps == 1

sweepFrame == <<now, events, ruleVars, hostPaths, serviceMonitors>>

(* let now = crate::time::now_as_secs(), after Client::try_default().await *)
SweepNow(p) ==
    /\ podMonitors[p].sweep_task = "live"
    /\ podMonitors[p].sweep.pc = "start"
    /\ Cardinality({ q \in DOMAIN podMonitors : podMonitors[q].sweep.pc # "start" }) < MaxSweeps
    /\ podMonitors' = [podMonitors EXCEPT ![p].sweep =
                          [@ EXCEPT !.pc = "list", !.now = now_as_secs(now),
                                    !.atStart = podMonitors[p].owner_references]]
    /\ UNCHANGED sweepFrame

(* api.list(lp).await answers Ok(object_list).                             *)
SweepList(p, pods) ==
    /\ podMonitors[p].sweep_task = "live"
    /\ podMonitors[p].sweep.pc = "list"
    /\ podMonitors' = [podMonitors EXCEPT ![p].sweep =
                          [@ EXCEPT !.pc = "bump", !.work = ListedOwners(pods),
                                    !.listed = SeqRange(ListedOwners(pods))]]
    /\ UNCHANGED sweepFrame

(* api.list(lp).await answers Err: the task logs and returns.              *)
SweepListError(p) ==
    /\ podMonitors[p].sweep_task = "live"
    /\ podMonitors[p].sweep.pc = "list"
    /\ podMonitors' = [podMonitors EXCEPT ![p].sweep.pc = "done",
                                          ![p].sweep_task = "ended"]
    /\ UNCHANGED sweepFrame

(* One owner of the first loop.  No suspension point lies between the      *)
(* answer of the list and the return of the task, so an abort has no       *)
(* effect on the loops.                                                    *)
SweepBump(p) ==
    /\ podMonitors[p].sweep.pc = "bump"
    /\ podMonitors[p].sweep.work # <<>>
    /\ podMonitors' = [podMonitors EXCEPT
                          ![p].owner_references =
                              sweep_bump(@, Head(podMonitors[p].sweep.work),
                                         podMonitors[p].sweep.now),
                          ![p].sweep.work = Tail(@)]
    /\ UNCHANGED sweepFrame

(* The first loop ends; owner_references.iter() begins.                    *)
SweepBumpDone(p) ==
    /\ podMonitors[p].sweep.pc = "bump"
    /\ podMonitors[p].sweep.work = <<>>
    /\ podMonitors' = [podMonitors EXCEPT ![p].sweep =
                          [@ EXCEPT !.pc = "remove", !.cursor = None,
                                    !.afterBump = podMonitors[p].owner_references]]
    /\ UNCHANGED sweepFrame

(* One entry of the second loop.                                           *)
SweepRemove(p) ==
    /\ podMonitors[p].sweep.pc = "remove"
    /\ KeysAhead(podMonitors[p].owner_references, podMonitors[p].sweep.cursor) # {}
    /\ LET refs == podMonitors[p].owner_references
           k == FirstKey(KeysAhead(refs, podMonitors[p].sweep.cursor))
           after == sweep_remove(refs, k, podMonitors[p].sweep.now)
       IN  podMonitors' = [podMonitors EXCEPT
                              ![p].owner_references = after,
                              ![p].sweep.cursor = Some(k),
                              ![p].sweep.removed =
                                  IF k \in DOMAIN after THEN @ ELSE @ \cup {k}]
    /\ UNCHANGED sweepFrame

(* The iterator is exhausted: the task returns.                            *)
SweepDone(p) ==
    /\ podMonitors[p].sweep.pc = "remove"
    /\ KeysAhead(podMonitors[p].owner_references, podMonitors[p].sweep.cursor) = {}
    /\ podMonitors' = [podMonitors EXCEPT
                          ![p].sweep.pc = "done",
                          ![p].sweep.completed = TRUE,
                          ![p].sweep_task = IF @ = "live" THEN "ended" ELSE @]
    /\ UNCHANGED sweepFrame

(* ServiceMonitor::handle_update with a changed selector, up to the return *)
(* of PodMonitor::new(..).await: the PodMonitor is made, its two tasks are *)
(* spawned, and pod_monitor_opt.insert has returned old_pod_monitor.       *)
ServiceHandleUpdateInsert(s, selector) ==
    /\ events < MaxEvents
    /\ serviceMonitors[s].task = "live"
    /\ serviceMonitors[s].pending = None
    /\ serviceMonitors[s].old_pod_monitor = None
    /\ handle_update_service(serviceMonitors[s], podMonitors, selector).changed
    /\ podMonitors' = Append(podMonitors,
                             PodMonitor_new(serviceMonitors[s].namespace,
                                            RenderSelector(selector),
                                            serviceMonitors[s].host_path))
    /\ serviceMonitors' =
          [serviceMonitors EXCEPT
              ![s].pod_monitor = Some(Len(podMonitors) + 1),
              ![s].old_pod_monitor =
                  OptionInsertReturn(serviceMonitors[s].pod_monitor, Len(podMonitors) + 1)]
    /\ events' = events + 1
    /\ UNCHANGED <<now, ruleVars, hostPaths>>

(* old_pod_monitor.abort_background_tasks().await, then the read of the    *)
(* clock for the store.                                                    *)
ServiceHandleUpdateAbort(s) ==
    /\ serviceMonitors[s].task = "live"
    /\ IsSome(serviceMonitors[s].old_pod_monitor)
    /\ podMonitors' = [podMonitors EXCEPT ![Unwrap(serviceMonitors[s].old_pod_monitor)] =
                          PodMonitor_abort_background_tasks(@)]
    /\ serviceMonitors' =
          [serviceMonitors EXCEPT
              ![s].old_pod_monitor = None,
              ![s].pending = Pending(now, serviceMonitors[s].host_path)]
    /\ UNCHANGED <<now, events, ruleVars, hostPaths>>

NextSweep ==
    \/ TickSecond
    \/ \E ns \in namespaces : ListIngresses(ns)
    \/ \E ns \in namespaces : InitUpsert(ns)
    \/ \E ns \in namespaces : InitDone(ns)
    \/ \E ns \in namespaces : UpsertServiceName(ns)
    \/ \E ns \in namespaces : UpsertAnnotations(ns)
    \/ \E ns \in namespaces : AnnotationsClear(ns)
    \/ \E ns \in namespaces : AnnotationsInsert(ns)
    \/ \E ns \in namespaces : UpsertAnnotationsStore(ns)
    \/ \E s \in DOMAIN serviceMonitors, sel \in SelectorMaps : ServiceHandleUpdateInsert(s, sel)
    \/ \E s \in DOMAIN serviceMonitors : ServiceHandleUpdateAbort(s)
    \/ \E s \in DOMAIN serviceMonitors : ServiceStore(s)
    \/ \E p \in DOMAIN podMonitors, owners \in OwnerLists : PodHandleUpdate(p, owners)
    \/ \E p \in DOMAIN podMonitors : PodStore(p)
    \/ \E p \in DOMAIN podMonitors : SweepNow(p)
    \/ \E p \in DOMAIN podMonitors, pods \in SweepPodLists : SweepList(p, pods)
    \/ \E p \in DOMAIN podMonitors : SweepListError(p)
    \/ \E p \in DOMAIN podMonitors : SweepBump(p)
    \/ \E p \in DOMAIN podMonitors : SweepBumpDone(p)
    \/ \E p \in DOMAIN podMonitors : SweepRemove(p)
    \/ \E p \in DOMAIN podMonitors : SweepDone(p)

SpecSweep == InitPods /\ [][NextSweep]_vars

(* C31: a sweep that has run to its end has removed exactly the owners     *)
(* whose second, after the first loop, was less than the second the sweep  *)
(* read at its start; none of them is an owner of a listed Pod, none was   *)
(* inserted after the sweep read the clock; and no step of the sweep adds  *)
(* a key to owner_references.                                              *)
C31_SweepRemovesOlderOwners ==
    /\ [](\A p \in DOMAIN podMonitors :
            podMonitors[p].sweep.completed
            => /\ podMonitors[p].sweep.removed =
                     { k \in DOMAIN podMonitors[p].sweep.afterBump :
                          podMonitors[p].sweep.afterBump[k] < podMonitors[p].sweep.now }
               /\ podMonitors[p].sweep.removed \cap podMonitors[p].sweep.listed = {}
               /\ podMonitors[p].sweep.removed \subseteq DOMAIN podMonitors[p].sweep.atStart)
    /\ [][ \A p \in DOMAIN podMonitors :
             podMonitors'[p].sweep # podMonitors[p].sweep
             => DOMAIN podMonitors'[p].owner_references \subseteq
                   DOMAIN podMonitors[p].owner_references ]_vars

(* A sweep has run to its end: it removed an owner that no listed Pod      *)
(* has, and kept an older owner of a listed Pod, whose second it had set   *)
(* to the second read at its start.                                        *)
C31_Witness ==
    \E p \in DOMAIN podMonitors :
       /\ podMonitors[p].sweep.completed
       /\ podMonitors[p].sweep.removed # {}
       /\ \E k \in podMonitors[p].sweep.listed \cap DOMAIN podMonitors[p].owner_references :
             /\ k \in DOMAIN podMonitors[p].sweep.atStart
             /\ podMonitors[p].sweep.atStart[k] < podMonitors[p].sweep.now
             /\ podMonitors[p].owner_references[k] = podMonitors[p].sweep.now

(* The PodMonitor held by the ServiceMonitor that the entry of the         *)
(* PodMonitor holds.                                                       *)
HeldByEntry(p) ==
    LET slot == hostPaths[podMonitors[p].host_path].service_monitor
    IN  /\ IsSome(slot)
        /\ serviceMonitors[Unwrap(slot)].pod_monitor = Some(p)

(* C32: a Pod event makes a PodMonitor write updated_millis only if the    *)
(* PodMonitor is the one held by the ServiceMonitor that the entry holds:  *)
(* after a change of the service name or of the selector, the PodMonitors  *)
(* of before handle no Pod into a store.                                   *)
C32_OnlyHeldPodMonitorWrites ==
    [][ \A p \in DOMAIN podMonitors :
          (/\ podMonitors[p].pending = None
           /\ IsSome(podMonitors'[p].pending))
          => HeldByEntry(p) ]_vars

-----------------------------------------------------------------------------
(* The rules of two namespaces at the same host and path, with deletions:  *)
(* the task of one namespace removes the key while the task of the other   *)
(* is between contains_key and get.                                        *)

(* get(&key) returns None and unwrap() panics: the task of the namespace   *)
(* ends.                                                                   *)
UpsertGetNone(ns) ==
    /\ rw[ns].ph = "svcGet"
    /\ LET item == Unwrap(rw[ns].cur).items[rw[ns].i]
           key == identifier(item.host, item.path)
       IN  ~IsSome(monitored_ingress_host_paths[key])
    /\ rw' = [rw EXCEPT ![ns] =
                 IdleTask(Handled(@, Unwrap(rw[ns].cur), "panic"), "ended", <<>>)]
    /\ queue' = [queue EXCEPT ![ns] = <<>>]
    /\ UNCHANGED <<envVars, health_ready, monitored_ingress_host_paths,
                   hostPaths, serviceMonitors, podMonitors>>

NextSharedKeyRemoval ==
    \/ NextSharedKey
    \/ \E r \in {"r1", "r3"} : ApiDelete(r)
    \/ \E ns \in namespaces : HandleDeleted(ns)
    \/ \E ns \in namespaces : UpsertGetNone(ns)

SpecSharedKeyRemoval == InitSharedKey /\ [][NextSharedKeyRemoval]_vars

(* C33: whenever the upsert of a namespace task is at the get that follows *)
(* contains_key and insert, the map holds an entry under the key, and no   *)
(* task has ended in the unwrap of the get.                                *)
C33_GetFindsTheEntry ==
    \A ns \in namespaces :
       /\ rw[ns].ph = "svcGet"
          => IsSome(monitored_ingress_host_paths[
                       identifier(Unwrap(rw[ns].cur).items[rw[ns].i].host,
                                  Unwrap(rw[ns].cur).items[rw[ns].i].path)])
       /\ rw[ns].last.outcome # "panic"

-----------------------------------------------------------------------------
(* The Mutexes.  service_name_update holds the Mutex of the entry's        *)
(* service_monitor from its lock().await to its return; handle_update of   *)
(* a ServiceMonitor task and abort_background_tasks hold the Mutex of      *)
(* pod_monitor.  The Mutexes of the abort_handle fields are locked and     *)
(* released inside one expression with no suspension point in between, on  *)
(* an object that only the caller can reach or for an abort(): they are    *)
(* part of the step that uses them.  The rules of two namespaces are at    *)
(* the same host and path, so that both watch_ingresses tasks call         *)
(* service_name_update on the same entry.                                  *)

(* The ServiceMonitors that the fairness conditions range over.            *)
MaxServiceMonitors == 4

(* The calls of handle_update that are begun.                              *)
MaxCalls == 1

(* The rule of nsA is served by svc-a and the rule of nsB by svc-b; none   *)
(* has an annotation of the prefix.                                        *)
LockContents(r) ==
    IF RuleNamespace(r) = "nsA"
    THEN Content(<<Item(<<"a.example">>, <<"/app">>, "svc-a")>>, (<<"other">> :> "x"))
    ELSE Content(<<Item(<<"a.example">>, <<"/app">>, "svc-b")>>, (<<"other">> :> "x"))

InitLocks ==
    /\ namespaces = {"nsA", "nsB"}
    /\ tag_prefix = annotation_prefix
    /\ InitWith({ LockContents(r) : r \in {"r1", "r3"} })
    /\ ~apiRules["r2"].present
    /\ \A r \in {"r1", "r3"} :
          /\ apiRules[r].present
          /\ Content(apiRules[r].items, apiRules[r].annotations) = LockContents(r)

(* get(&key).unwrap() finds the entry; service_name_update is called and   *)
(* stands at mutex.lock().await.                                           *)
UpsertGetSome(ns) ==
    /\ rw[ns].ph = "svcGet"
    /\ LET item == Unwrap(rw[ns].cur).items[rw[ns].i]
           key == identifier(item.host, item.path)
       IN  /\ IsSome(monitored_ingress_host_paths[key])
           /\ rw' = [rw EXCEPT ![ns] =
                        [@ EXCEPT !.ph = "snuLock",
                                  !.e = Unwrap(monitored_ingress_host_paths[key])]]
    /\ UNCHANGED <<envVars, queue, health_ready, monitored_ingress_host_paths,
                   hostPaths, serviceMonitors, podMonitors>>

(* service_name_update: the Mutex of service_monitor is taken when it is   *)
(* free.  With the name watched already the block ends and the Mutex is    *)
(* released; otherwise abort_background_tasks aborts the task of the       *)
(* ServiceMonitor and stands at the lock().await of its pod_monitor.       *)
SnuLock(ns) ==
    /\ rw[ns].ph = "snuLock"
    /\ hostPaths[rw[ns].e].service_monitor_lock = None
    /\ LET e == rw[ns].e
           old == Unwrap(hostPaths[e].service_monitor)
           service_name == Unwrap(rw[ns].cur).items[rw[ns].i].service
       IN  IF serviceMonitors[old].service_name # service_name
           THEN /\ hostPaths' = [hostPaths EXCEPT ![e].service_monitor_lock = Some(ns)]
                /\ serviceMonitors' = [serviceMonitors EXCEPT ![old].task = AbortTask(@)]
                /\ rw' = [rw EXCEPT ![ns] = [@ EXCEPT !.ph = "snuPodLock"]]
           ELSE /\ rw' = [rw EXCEPT ![ns] = [@ EXCEPT !.ph = "ann"]]
                /\ UNCHANGED <<hostPaths, serviceMonitors>>
    /\ UNCHANGED <<envVars, queue, health_ready, monitored_ingress_host_paths, podMonitors>>

(* abort_background_tasks takes the Mutex of pod_monitor when it is free,  *)
(* aborts the PodMonitor held, if any, and releases it; then               *)
(* ServiceMonitor::new, service_monitor_opt.replace and the read of the    *)
(* clock for the store.                                                    *)
SnuPodLock(ns) ==
    /\ rw[ns].ph = "snuPodLock"
    /\ LET e == rw[ns].e
           old == Unwrap(hostPaths[e].service_monitor)
           service_name == Unwrap(rw[ns].cur).items[rw[ns].i].service
       IN  /\ serviceMonitors[old].pod_monitor_lock = None
           /\ podMonitors' =
                 IF IsSome(serviceMonitors[old].pod_monitor)
                 THEN [podMonitors EXCEPT ![Unwrap(serviceMonitors[old].pod_monitor)] =
                          PodMonitor_abort_background_tasks(@)]
                 ELSE podMonitors
           /\ serviceMonitors' =
                 Append(serviceMonitors,
                        ServiceMonitor_new(serviceMonitors[old].namespace, service_name, e))
           /\ hostPaths' = [hostPaths EXCEPT ![e].service_monitor =
                                                   Some(Len(serviceMonitors) + 1)]
           /\ rw' = [rw EXCEPT ![ns] =
                        [@ EXCEPT !.ph = "svcStore", !.t = now,
                                  !.before = hostPaths[e].updated_millis]]
    /\ UNCHANGED <<envVars, queue, health_ready, monitored_ingress_host_paths>>

(* self.updated_millis.store(..) of service_name_update; the block ends    *)
(* and the Mutex of service_monitor is released.                           *)
SnuStore(ns) ==
    /\ rw[ns].ph = "svcStore"
    /\ hostPaths' = [hostPaths EXCEPT ![rw[ns].e].updated_millis = rw[ns].t,
                                      ![rw[ns].e].service_monitor_lock = None]
    /\ rw' = [rw EXCEPT ![ns] = [@ EXCEPT !.ph = "ann", !.t = 0, !.before = 0]]
    /\ UNCHANGED <<envVars, queue, health_ready, monitored_ingress_host_paths,
                   serviceMonitors, podMonitors>>

huFrame == <<now, ruleVars, hostPaths>>

(* The reflector stream yields a Service: handle_update is called and      *)
(* stands at mutex.lock().await.                                           *)
HuBegin(s, selector) ==
    /\ s \in DOMAIN serviceMonitors
    /\ events < MaxCalls
    /\ serviceMonitors[s].task = "live"
    /\ serviceMonitors[s].pc = "idle"
    /\ serviceMonitors[s].pending = None
    /\ serviceMonitors' = [serviceMonitors EXCEPT ![s].pc = "wait",
                                                  ![s].selector = selector]
    /\ events' = events + 1
    /\ UNCHANGED <<podMonitors, huFrame>>

(* handle_update takes the Mutex of pod_monitor when it is free.  With the *)
(* selector of the PodMonitor held the block ends; otherwise               *)
(* PodMonitor::new makes the PodMonitor, spawns its tasks and awaits.      *)
HuLock(s) ==
    /\ s \in DOMAIN serviceMonitors
    /\ serviceMonitors[s].pc = "wait"
    /\ serviceMonitors[s].pod_monitor_lock = None
    /\ LET sm == serviceMonitors[s]
           changed == handle_update_service(sm, podMonitors, sm.selector).changed
       IN  IF changed
           THEN /\ podMonitors' = Append(podMonitors,
                                         PodMonitor_new(sm.namespace,
                                                        RenderSelector(sm.selector),
                                                        sm.host_path))
                /\ serviceMonitors' =
                      [serviceMonitors EXCEPT
                          ![s].pc = "new",
                          ![s].pod_monitor_lock = Some("task"),
                          ![s].new_pod_monitor = Some(Len(podMonitors) + 1)]
           ELSE /\ serviceMonitors' = [serviceMonitors EXCEPT ![s].pc = "idle",
                                                              ![s].selector = <<>>]
                /\ UNCHANGED podMonitors
    /\ UNCHANGED <<events, huFrame>>

(* pod_monitor_opt.insert(..); abort_background_tasks() is called on what  *)
(* it returned and awaits.                                                 *)
HuInsert(s) ==
    /\ s \in DOMAIN serviceMonitors
    /\ serviceMonitors[s].pc = "new"
    /\ serviceMonitors' =
          [serviceMonitors EXCEPT
              ![s].pc = "abort",
              ![s].pod_monitor = serviceMonitors[s].new_pod_monitor,
              ![s].old_pod_monitor =
                  OptionInsertReturn(serviceMonitors[s].pod_monitor,
                                     Unwrap(serviceMonitors[s].new_pod_monitor)),
              ![s].new_pod_monitor = None]
    /\ UNCHANGED <<events, podMonitors, huFrame>>

(* abort_handle.abort() of old_pod_monitor; the block ends, the Mutex of   *)
(* pod_monitor is released and the clock is read for the store.            *)
HuAbort(s) ==
    /\ s \in DOMAIN serviceMonitors
    /\ serviceMonitors[s].pc = "abort"
    /\ podMonitors' = [podMonitors EXCEPT ![Unwrap(serviceMonitors[s].old_pod_monitor)] =
                          PodMonitor_abort_background_tasks(@)]
    /\ serviceMonitors' =
          [serviceMonitors EXCEPT
              ![s].pc = "idle",
              ![s].selector = <<>>,
              ![s].pod_monitor_lock = None,
              ![s].old_pod_monitor = None,
              ![s].pending = Pending(now, serviceMonitors[s].host_path)]
    /\ UNCHANGED <<events, huFrame>>

(* Variant: the future of an aborted task is dropped without its           *)
(* MutexGuard.                                                             *)
HuCancelled_keeps_lock(s) ==
    /\ s \in DOMAIN serviceMonitors
    /\ serviceMonitors[s].task = "aborted"
    /\ serviceMonitors[s].pc \in {"wait", "new", "abort"}
    /\ serviceMonitors' =
          [serviceMonitors EXCEPT
              ![s].pc = "gone",
              ![s].selector = <<>>,
              ![s].new_pod_monitor = None,
              ![s].old_pod_monitor = None]
    /\ UNCHANGED <<events, podMonitors, huFrame>>

(* The task was aborted and stands at a suspension point of handle_update: *)
(* its future is dropped, and with it the MutexGuard it holds.             *)
HuCancelled(s) ==
    /\ s \in DOMAIN serviceMonitors
    /\ serviceMonitors[s].task = "aborted"
    /\ serviceMonitors[s].pc \in {"wait", "new", "abort"}
    /\ serviceMonitors' =
          [serviceMonitors EXCEPT
              ![s].pc = "gone",
              ![s].selector = <<>>,
              ![s].pod_monitor_lock = IF @ = Some("task") THEN None ELSE @,
              ![s].new_pod_monitor = None,
              ![s].old_pod_monitor = None]
    /\ UNCHANGED <<events, podMonitors, huFrame>>

(* The steps of the watch_ingresses task of a namespace.                   *)
RuleTaskStep(ns) ==
    \/ ListIngresses(ns)
    \/ InitUpsert(ns)
    \/ InitDone(ns)
    \/ UpsertContainsKey(ns)
    \/ UpsertInsert(ns)
    \/ UpsertGetSome(ns)
    \/ SnuLock(ns)
    \/ SnuPodLock(ns)
    \/ SnuStore(ns)
    \/ UpsertAnnotations(ns)
    \/ AnnotationsClear(ns)
    \/ AnnotationsInsert(ns)
    \/ UpsertAnnotationsStore(ns)

(* The steps of the task of a ServiceMonitor inside handle_update.         *)
ServiceTaskStep(s) ==
    \/ HuLock(s)
    \/ HuInsert(s)
    \/ HuAbort(s)
    \/ HuCancelled(s)

NextLocks ==
    \/ \E ns \in namespaces : RuleTaskStep(ns)
    \/ \E s \in 1..MaxServiceMonitors, sel \in SelectorMaps : HuBegin(s, sel)
    \/ \E s \in 1..MaxServiceMonitors : ServiceTaskStep(s)
    \/ \E s \in DOMAIN serviceMonitors : ServiceStore(s)

(* The runtime polls every task that can go on, and a task that waits for  *)
(* a Mutex goes on once the Mutex stays free.                              *)
FairLocks ==
    /\ \A ns \in {"nsA", "nsB"} : WF_vars(RuleTaskStep(ns))
    /\ \A s \in 1..MaxServiceMonitors : WF_vars(ServiceTaskStep(s))

SpecLocks == InitLocks /\ [][NextLocks]_vars /\ FairLocks

InServiceNameUpdate(ns) == rw[ns].ph \in {"snuLock", "snuPodLock", "svcStore"}
InHandleUpdate(s) ==
    s \in DOMAIN serviceMonitors /\ serviceMonitors[s].pc \in {"wait", "new", "abort"}

(* C34: a Mutex is held only by a call that is under way; every call of    *)
(* service_name_update returns, and every call of handle_update returns or *)
(* is dropped by an abort; after it the caller holds no Mutex.             *)
C34_NoDeadlock ==
    /\ [](\A e \in DOMAIN hostPaths : \A ns \in namespaces :
             hostPaths[e].service_monitor_lock = Some(ns)
             => rw[ns].ph \in {"snuPodLock", "svcStore"} /\ rw[ns].e = e)
    /\ [](\A s \in DOMAIN serviceMonitors :
             /\ serviceMonitors[s].pod_monitor_lock \in {None, Some("task")}
             /\ serviceMonitors[s].pod_monitor_lock = Some("task")
                => serviceMonitors[s].pc \in {"new", "abort"})
    /\ \A ns \in {"nsA", "nsB"} : InServiceNameUpdate(ns) ~> ~InServiceNameUpdate(ns)
    /\ \A s \in 1..MaxServiceMonitors : InHandleUpdate(s) ~> ~InHandleUpdate(s)

(* service_name_update waits for the Mutex of pod_monitor while the        *)
(* handle_update of the ServiceMonitor it has aborted holds it.            *)
C34_Witness ==
    \E ns \in namespaces :
       /\ rw[ns].ph = "snuPodLock"
       /\ LET old == Unwrap(hostPaths[rw[ns].e].service_monitor)
          IN  /\ serviceMonitors[old].pod_monitor_lock = Some("task")
              /\ serviceMonitors[old].task = "aborted"

-----------------------------------------------------------------------------
(* IngressMonitor::get_all: the values of the map.                         *)
get_all == { Unwrap(monitored_ingress_host_paths[k]) : k \in CatalogKeys }

(* C35: updated_millis of every entry that get_all returns is above 0.     *)
C35_UpdatedMillisAboveZero ==
    \A e \in get_all : hostPaths[e].updated_millis > 0

-----------------------------------------------------------------------------
(* Rules with a path that has no backend service.                          *)

MissingContents ==
    { Content(<<Item(<<"a.example">>, <<"/app">>, "svc-a")>>,
              (<<"microfe/", "team">> :> "finance")),
      Content(<<Item(<<"a.example">>, <<"/app">>, "svc-b"),
                Item(<<"a.example">>, <<"/shop">>, BackendServiceNone)>>,
              (<<"microfe/", "team">> :> "finance")) }

InitMissing ==
    /\ namespaces = {"nsA"}
    /\ tag_prefix = annotation_prefix
    /\ InitWith(MissingContents)
    /\ \A r \in RuleNames \ {"r1"} : ~apiRules[r].present

(* http_ingress_path.backend.service.as_ref().unwrap() panics: the task of *)
(* the namespace ends, inside the for loop over the paths of the rule.     *)
UpsertUnwrapNone(ns) ==
    /\ rw[ns].ph = "svc"
    /\ Unwrap(rw[ns].cur).items[rw[ns].i].service = BackendServiceNone
    /\ rw' = [rw EXCEPT ![ns] =
                 IdleTask(Handled(@, Unwrap(rw[ns].cur), "panic"), "ended", <<>>)]
    /\ queue' = [queue EXCEPT ![ns] = <<>>]
    /\ UNCHANGED <<envVars, health_ready, monitored_ingress_host_paths,
                   hostPaths, serviceMonitors, podMonitors>>

NextMissing ==
    \/ \E c \in MissingContents : ApiCreate("r1", c)
    \/ \E c \in MissingContents : ApiModify("r1", c)
    \/ ApiDelete("r1")
    \/ \E ns \in namespaces : ListIngresses(ns)
    \/ \E ns \in namespaces : InitUpsert(ns)
    \/ \E ns \in namespaces : InitDone(ns)
    \/ \E ns \in namespaces : HandleDeleted(ns)
    \/ \E ns \in namespaces : HandleApplied(ns)
    \/ \E ns \in namespaces : UpsertServiceName(ns)
    \/ \E ns \in namespaces : UpsertServiceNameStore(ns)
    \/ \E ns \in namespaces : UpsertAnnotations(ns)
    \/ \E ns \in namespaces : AnnotationsClear(ns)
    \/ \E ns \in namespaces : AnnotationsInsert(ns)
    \/ \E ns \in namespaces : UpsertAnnotationsStore(ns)
    \/ \E ns \in namespaces : UpsertUnwrapNone(ns)

SpecMissing == InitMissing /\ [][NextMissing]_vars

(* The upsert of the rule fails at one of its items.                       *)
UpsertFails(ev) ==
    \E i \in DOMAIN ev.items : ev.items[i].service = BackendServiceNone

(* C36: while a rule with a path that has no backend service is upserted,  *)
(* no step of the upsert inserts an entry or changes one: the map, the     *)
(* entries and their ServiceMonitors are, when the upsert fails, as they   *)
(* were when it began.                                                     *)
C36_FailedUpsertChangesNothing ==
    [][ \A ns \in namespaces :
          (/\ IsSome(rw[ns].cur)
           /\ UpsertFails(Unwrap(rw[ns].cur))
           /\ rw'[ns] # rw[ns])
          => /\ monitored_ingress_host_paths' = monitored_ingress_host_paths
             /\ hostPaths' = hostPaths
             /\ serviceMonitors' = serviceMonitors ]_vars

-----------------------------------------------------------------------------
(* C37: when service_name_update returns in the upsert of a rule, the      *)
(* ServiceMonitor that the entry holds is one for the namespace of the     *)
(* rule and for the backend service of the rule's path, also when the      *)
(* rules of two namespaces are at the same host and path.                  *)
C37_ServiceMonitorOfLastUpsert ==
    [][ \A ns \in namespaces :
          (/\ rw[ns].ph = "svcGet"
           /\ rw'[ns].ph \in {"svcStore", "ann"})
          => LET e == rw'[ns].e
                 sm == serviceMonitors'[Unwrap(hostPaths'[e].service_monitor)]
             IN  /\ sm.service_name = Unwrap(rw[ns].cur).items[rw[ns].i].service
                 /\ sm.namespace = ns ]_vars

====
